---- MODULE Spec2Model ----
(***************************************************************************)
(* Model of boost::charconv as found in src/src/from_chars.cpp (the        *)
(* integer parser from_chars_impl and its digit table) and                 *)
(* src/src/to_chars_float_impl.hpp (the floating-point formatter).         *)
(*                                                                         *)
(* Every operation is a pure function over caller-supplied buffers, so a   *)
(* behaviour is one call: the initial state holds the arguments of a       *)
(* pending call (phase = "call") and the operation's action replaces it    *)
(* by the state after the call has returned (phase = "return").            *)
(*                                                                         *)
(* Characters are byte values 0..255.  A pointer is an offset into the     *)
(* buffer it points into; buffer element i (0-based) is buf[i + 1].        *)
(***************************************************************************)
EXTENDS Integers, Sequences, FiniteSets, TLC

VARIABLES
    op,     \* the operation called
    phase,  \* "call" before the operation has run, "return" after
    inp,    \* the arguments of the call
    out     \* what the call returned and wrote

vars == <<op, phase, inp, out>>

NoResult == [none |-> TRUE]

(***************************************************************************)
(* Bounds of the model.                                                    *)
(***************************************************************************)
\* Longest free-form input text handed to the parser.
MaxLen == 3

(***************************************************************************)
(* Character codes used by the parser and by the input texts.              *)
(***************************************************************************)
MinusChar == 45
PlusChar == 43
SpaceChar == 32
HighChar == 128

Bytes == 0..255

Pow2(n) == 2 ^ n

(***************************************************************************)
(* from_chars.cpp: the digit table and its lookup.                         *)
(***************************************************************************)
\* The 256-entry table: '0'..'9' -> 0..9, 'A'..'Z' and 'a'..'z' -> 10..35,
\* anything else 255.
uchar_values ==
    [i \in Bytes |->
        IF i \in 48..57 THEN i - 48
        ELSE IF i \in 65..90 THEN i - 55
        ELSE IF i \in 97..122 THEN i - 87
        ELSE 255]

\* The value of the char object holding byte b: negative for b >= 128 when
\* the build's char is signed.
CharValue(b, char_signed) == IF char_signed /\ b >= 128 THEN b - 256 ELSE b

\* static_cast<std::size_t>(val) stays inside the table only for val >= 0: a
\* negative char converts to a value of at least 2^64 - 128.
IndexInTable(val) == val \in Bytes

\* digit_from_char(val): uchar_values[static_cast<std::size_t>(val)].  An
\* index outside the table is an out-of-bounds read, whose result is whatever
\* byte `oob` lies at that address.
digit_from_char(val, oob) ==
    IF IndexInTable(val) THEN uchar_values[val] ELSE oob

(***************************************************************************)
(* The integer types from_chars is instantiated for.  `promotes` says that *)
(* the type's rank is below int, so that unary minus is computed in int.   *)
(* int is taken at 16 bits, the narrowest width the language allows; the   *)
(* parser reads the width only through std::numeric_limits.                *)
(***************************************************************************)
IntegerTypes ==
    { [name |-> "signed char",   bits |-> 8,  is_signed |-> TRUE,  promotes |-> TRUE],
      [name |-> "unsigned char", bits |-> 8,  is_signed |-> FALSE, promotes |-> TRUE],
      [name |-> "int",           bits |-> 16, is_signed |-> TRUE,  promotes |-> FALSE],
      [name |-> "unsigned int",  bits |-> 16, is_signed |-> FALSE, promotes |-> FALSE] }

\* std::numeric_limits<T>::max() and ::min()
MaxOf(T) == IF T.is_signed THEN Pow2(T.bits - 1) - 1 ELSE Pow2(T.bits) - 1
MinOf(T) == IF T.is_signed THEN -Pow2(T.bits - 1) ELSE 0

\* static_cast<Integer>(u) of an Unsigned_Integer u (two's complement)
ToInteger(T, u) ==
    IF T.is_signed /\ u >= Pow2(T.bits - 1) THEN u - Pow2(T.bits) ELSE u

\* What a signed negation that overflows may leave in the result: undefined
\* behaviour, any value of the type; the boundary values stand for them.
SignedOverflowOutcomes(T) == {MinOf(T), MinOf(T) + 1, -1, 0, 1, MaxOf(T)}

\* apply_sign(val) of a signed type: return -val.  A type below int is
\* promoted, negated in int and converted back; for int and wider, -min(T)
\* overflows.
apply_sign(T, val) ==
    IF T.promotes
    THEN {ToInteger(T, (-val) % Pow2(T.bits))}
    ELSE IF val = MinOf(T) THEN SignedOverflowOutcomes(T) ELSE {-val}

\* The test of line 121: the next digit still fits below the limit.
fits_broken(result, overflow_value, current_digit, max_digit) ==
    result <= overflow_value

fits(result, overflow_value, current_digit, max_digit) ==
    result < overflow_value \/ (result = overflow_value /\ current_digit <= max_digit)

\* The digit loop of from_chars_impl (lines 111-130), from position `next`
\* with the accumulated `result`.  The character is read and `next` advanced
\* in one expression, before the digit is tested against the base.
RECURSIVE digit_loop(_, _, _, _, _, _, _, _, _)
digit_loop(T, buf, next, last, base, overflow_value, max_digit, result, overflowed) ==
    IF next = last
    THEN [next |-> next, result |-> result, overflowed |-> overflowed]
    ELSE LET current_digit ==
                 digit_from_char(CharValue(buf.bytes[next + 1], buf.char_signed), buf.oob)
             next1 == next + 1
         IN  IF current_digit >= base
             THEN [next |-> next1, result |-> result, overflowed |-> overflowed]
             ELSE IF fits(result, overflow_value, current_digit, max_digit)
                  THEN digit_loop(T, buf, next1, last, base, overflow_value, max_digit,
                                  (result * base + current_digit) % Pow2(T.bits),
                                  overflowed)
                  ELSE digit_loop(T, buf, next1, last, base, overflow_value, max_digit,
                                  result, TRUE)

\* The return of lines 134-137: the out-parameter keeps `value`.
overflow_return_broken(T, next, result, value) ==
    [ptr |-> next, ec |-> "ERANGE", value |-> ToInteger(T, result)]

overflow_return(T, next, result, value) ==
    [ptr |-> next, ec |-> "ERANGE", value |-> value]

\* from_chars_impl<Integer>(first, last, value, base): the set of results
\* [ptr, ec, value] the call may produce, `value` being the out-parameter
\* after the call.
from_chars_impl(T, buf, first, last, value, base) ==
    IF ~(first <= last)
    THEN {[ptr |-> first, ec |-> "EINVAL", value |-> value]}
    ELSE
    LET signed_next == T.is_signed /\ first # last
        is_negative == signed_next /\ buf.bytes[first + 1] = MinusChar
        next == IF signed_next /\ buf.bytes[first + 1] \in {MinusChar, PlusChar}
                THEN first + 1 ELSE first
        limit == IF T.is_signed
                 THEN MaxOf(T) + (IF is_negative THEN 1 ELSE 0)
                 ELSE MaxOf(T)
        overflow_value == limit \div base
        max_digit == limit % base
    IN  IF next = last
        THEN {[ptr |-> first, ec |-> "EINVAL", value |-> value]}
        ELSE
        LET l == digit_loop(T, buf, next, last, base, overflow_value, max_digit, 0, FALSE)
            v == ToInteger(T, l.result)
        IN  IF l.overflowed
            THEN {overflow_return(T, l.next, l.result, value)}
            ELSE IF T.is_signed /\ is_negative
                 THEN {[ptr |-> l.next, ec |-> "ok", value |-> w] : w \in apply_sign(T, v)}
                 ELSE {[ptr |-> l.next, ec |-> "ok", value |-> v]}

(***************************************************************************)
(* Input texts of the parser.                                              *)
(***************************************************************************)
\* The character to_chars writes for digit d: '0'..'9', 'a'..'z'.
DigitChar(d) == IF d < 10 THEN 48 + d ELSE 87 + d

RECURSIVE MagnitudeText(_, _)
MagnitudeText(m, base) ==
    IF m < base THEN <<DigitChar(m)>>
    ELSE Append(MagnitudeText(m \div base, base), DigitChar(m % base))

\* The minimal text of v in `base`: a '-' for v < 0, then the digits of |v|
\* without leading zeros (what to_chars(first, last, v, base) writes).
IntToText(v, base) ==
    IF v < 0 THEN <<MinusChar>> \o MagnitudeText(-v, base) ELSE MagnitudeText(v, base)

Bases == 2..36

\* The bases free-form texts of two or more characters are parsed in.
TextBases == {2, 10, 16, 36}

\* The values whose text is parsed: every value of an 8-bit type, the values
\* around the ends and around zero of a wider one, and the first value
\* beyond each end.
FormattedValues(T) ==
    (IF T.bits <= 8 THEN MinOf(T)..MaxOf(T)
     ELSE {MinOf(T), MinOf(T) + 1, -1, 0, 1, 255, 256, MaxOf(T) - 1, MaxOf(T)}
          \cap (MinOf(T)..MaxOf(T)))
    \cup {MaxOf(T) + 1} \cup (IF T.is_signed THEN {MinOf(T) - 1} ELSE {})

\* The characters free-form texts are made of: signs, digits of every kind,
\* both letter cases, a blank and a byte above 127.
Alphabet == {MinusChar, PlusChar, SpaceChar, HighChar, 48, 57, 70, 102, 122}

RECURSIVE TextsOfLen(_)
TextsOfLen(n) ==
    IF n = 0 THEN {<<>>}
    ELSE {Append(t, c) : t \in TextsOfLen(n - 1), c \in Alphabet}

Texts == UNION {TextsOfLen(n) : n \in 0..MaxLen}

\* The out-parameter's value before the call.
InitialValues == {0, 42}

\* The bytes an out-of-table read of the digit table may find.
OutOfTableReads == {0, 9, 10, 35, 36, 255}

HasHighByte(bytes) == \E i \in 1..Len(bytes) : bytes[i] >= 128

\* The builds (signedness of char, byte found by an out-of-table read) that
\* differ on `bytes`: one build when no byte is above 127.
Builds(bytes) ==
    IF HasHighByte(bytes)
    THEN {[char_signed |-> FALSE, oob |-> 255]}
         \cup {[char_signed |-> TRUE, oob |-> b] : b \in OutOfTableReads}
    ELSE {[char_signed |-> TRUE, oob |-> 255]}

ParseInput(T, bytes, first, last, value, base, build, kind, v) ==
    [T |-> T, bytes |-> bytes, first |-> first, last |-> last, value |-> value,
     base |-> base, char_signed |-> build.char_signed, oob |-> build.oob,
     kind |-> kind, v |-> v]

\* to_chars(v, base) handed to from_chars, as test_roundtrip does.
FormattedInput ==
    \E T \in IntegerTypes, base \in Bases, x \in InitialValues :
        \E v \in FormattedValues(T) :
            inp = ParseInput(T, IntToText(v, base), 0, Len(IntToText(v, base)), x, base,
                             [char_signed |-> TRUE, oob |-> 255], "formatted", v)

\* A free-form text [first, last) = the whole text, in every base when it is
\* at most one character long.
TextInput ==
    \E t \in Texts, T \in IntegerTypes, x \in InitialValues :
        \E b \in Builds(t), base \in (IF Len(t) <= 1 THEN Bases ELSE TextBases) :
            inp = ParseInput(T, t, 0, Len(t), x, base, b, "text", 0)

\* An inverted range: first points past last.
InvertedInput ==
    \E T \in IntegerTypes, t \in TextsOfLen(1), x \in InitialValues, base \in TextBases :
        inp = ParseInput(T, t, 1, 0, x, base, [char_signed |-> TRUE, oob |-> 255],
                         "text", 0)

\* Every byte value, under both signednesses of char.
DigitInput ==
    \E b \in Bytes, cs \in BOOLEAN, o \in OutOfTableReads :
        inp = [byte |-> b, char_signed |-> cs, oob |-> o]

(***************************************************************************)
(* The parser's specification: one call of from_chars or of the digit      *)
(* lookup.                                                                 *)
(***************************************************************************)
InitParse ==
    /\ phase = "call"
    /\ out = NoResult
    /\ \/ op = "from_chars" /\ (FormattedInput \/ TextInput \/ InvertedInput)
       \/ op = "digit_from_char" /\ DigitInput

\* boost::charconv::from_chars(first, last, value, base)
FromChars ==
    /\ op = "from_chars"
    /\ phase = "call"
    /\ \E r \in from_chars_impl(inp.T,
                                [bytes |-> inp.bytes, char_signed |-> inp.char_signed,
                                 oob |-> inp.oob],
                                inp.first, inp.last, inp.value, inp.base) :
           out' = r
    /\ phase' = "return"
    /\ UNCHANGED <<op, inp>>

\* detail::digit_from_char(val)
DigitFromChar ==
    /\ op = "digit_from_char"
    /\ phase = "call"
    /\ out' = [digit |-> digit_from_char(CharValue(inp.byte, inp.char_signed), inp.oob),
               in_table |-> IndexInTable(CharValue(inp.byte, inp.char_signed))]
    /\ phase' = "return"
    /\ UNCHANGED <<op, inp>>

NextParse == FromChars \/ DigitFromChar

SpecParse == InitParse /\ [][NextParse]_vars

(***************************************************************************)
(* Properties of the parser.                                               *)
(***************************************************************************)
Returned(o) == op = o /\ phase = "return"

InRange(T, v) == MinOf(T) <= v /\ v <= MaxOf(T)

\* C1: parsing the minimal text of any value v of T, in any base, returns ok
\* with end = last and writes exactly v.
C1_RoundTrip ==
    (Returned("from_chars") /\ inp.kind = "formatted" /\ InRange(inp.T, inp.v))
        => (out.ec = "ok" /\ out.ptr = inp.last /\ out.value = inp.v)

\* C2: the text of max(T) parses to ok with value max(T); the text of
\* max(T) + 1 in the same base parses to range-error.
C2_OverflowBoundary ==
    (Returned("from_chars") /\ inp.kind = "formatted")
        => /\ (inp.v = MaxOf(inp.T)) => (out.ec = "ok" /\ out.value = MaxOf(inp.T))
           /\ (inp.v = MaxOf(inp.T) + 1) => (out.ec = "ERANGE")

C2_Witness ==
    /\ Returned("from_chars")
    /\ inp.kind = "formatted"
    /\ inp.T.name = "unsigned int"
    /\ inp.base = 36
    /\ inp.v = MaxOf(inp.T) + 1
    /\ out.ec = "ERANGE"

\* A character that is a digit of `base`: '0'..'9', 'a'..'z', 'A'..'Z' with
\* a value below the base.
ValidDigit(c, base) == uchar_values[c] < base

\* Where the digits start: past the sign a signed type accepts.
DigitStart ==
    IF inp.T.is_signed /\ inp.first < inp.last
       /\ inp.bytes[inp.first + 1] \in {MinusChar, PlusChar}
    THEN inp.first + 1 ELSE inp.first

\* No valid digit follows the optional sign: the range is inverted or empty,
\* holds a sign only, or goes on with a character that is no digit.
NoDigits ==
    \/ inp.first > inp.last
    \/ DigitStart = inp.last
    \/ ~ValidDigit(inp.bytes[DigitStart + 1], inp.base)

\* The position of the first character from `pos` on that is no valid digit,
\* or last.
RECURSIVE FirstNonDigit(_, _, _, _)
FirstNonDigit(bytes, pos, last, base) ==
    IF pos = last \/ ~ValidDigit(bytes[pos + 1], base) THEN pos
    ELSE FirstNonDigit(bytes, pos + 1, last, base)

\* C3: without a valid digit after the optional sign the parser returns
\* invalid-argument with end = first; it never returns ok without a digit.
C3_NoDigitsInvalid ==
    (Returned("from_chars") /\ NoDigits)
        => (out.ec = "EINVAL" /\ out.ptr = inp.first)

\* C4: the one-character inputs "-" and "+" parse to invalid-argument with
\* end = first, for signed and unsigned types and every base.
C4_SignOnly ==
    (Returned("from_chars") /\ inp.first = 0 /\ inp.last = 1
        /\ inp.bytes \in {<<MinusChar>>, <<PlusChar>>})
        => (out.ec = "EINVAL" /\ out.ptr = inp.first)

\* C5: once a valid digit has been consumed, the returned end is the position
\* of the first character that is no valid digit (or last), also after an
\* overflow.
C5_EndAtFirstNonDigit ==
    (Returned("from_chars") /\ ~NoDigits)
        => /\ out.ec \in {"ok", "ERANGE"}
           /\ out.ptr = FirstNonDigit(inp.bytes, DigitStart, inp.last, inp.base)

\* C6: on every failing return the out-parameter holds what it held before
\* the call.
C6_FailureKeepsValue ==
    (Returned("from_chars") /\ out.ec # "ok") => out.value = inp.value

C6_Witness ==
    /\ Returned("from_chars")
    /\ inp.kind = "text"
    /\ out.ec = "ERANGE"
    /\ inp.value = 42
    /\ out.value = 42

\* C7: the digit lookup reads inside its table for every char value and
\* returns the table's entry for the byte; "ff", "FF" and "Ff" parse to 255
\* at base 16.
C7_DigitLookupTotal ==
    /\ Returned("digit_from_char")
        => (out.in_table /\ out.digit = uchar_values[inp.byte])
    /\ (Returned("from_chars") /\ inp.base = 16 /\ InRange(inp.T, 255)
            /\ inp.bytes \in {<<102, 102>>, <<70, 70>>, <<70, 102>>})
        => (out.ec = "ok" /\ out.value = 255)

(***************************************************************************)
(* to_chars_float_impl.hpp: output buffers.                                *)
(*                                                                         *)
(* The memory a formatter writes to is a row of cells, each holding one    *)
(* character; the caller's buffer is [first, last) and the cells from last *)
(* on lie outside it.  `written` records every offset a call has stored    *)
(* to, whether inside the buffer or not.                                   *)
(***************************************************************************)
\* Largest buffer handed to a formatter.
MaxBuf == 26

\* Cells of memory modelled beyond the largest buffer.
Slack == 24

\* What the cells hold before the call.
Fills == {"?", "0"}

FreshMemory(fill) ==
    [cells |-> [i \in 0..(MaxBuf + Slack - 1) |-> fill], written |-> {}]

\* *p = c, std::memcpy(p, chars, n), std::memset(p, c, n): store the
\* characters `chars` at offsets at, at + 1, ...
Store(m, at, chars) ==
    [cells |-> [i \in DOMAIN m.cells |->
                    IF i >= at /\ i < at + Len(chars) THEN chars[i - at + 1]
                    ELSE m.cells[i]],
     written |-> m.written \cup {at + k : k \in 0..(Len(chars) - 1)}]

\* The characters [from, to) of memory.
Chars(m, from, to) == [k \in 1..(to - from) |-> m.cells[from + k - 1]]

LitNanSnan == <<"n", "a", "n", "(", "s", "n", "a", "n", ")">>
LitNanInd == <<"n", "a", "n", "(", "i", "n", "d", ")">>
LitNan == <<"n", "a", "n">>
LitInf == <<"i", "n", "f">>
LitMinusInf == <<"-", "i", "n", "f">>
LitMinus == <<"-">>
LitHexZero == <<"0", "p", "+", "0">>

BoolInt(b) == IF b THEN 1 ELSE 0

Result(ptr, ec, mem) == [ptr |-> ptr, ec |-> ec, mem |-> mem]

(***************************************************************************)
(* to_chars_nonfinite (lines 55-119; the __float128 specialization of      *)
(* lines 131-196 differs only in where the sign is read from).             *)
(***************************************************************************)
\* The test of line 72 that guards the "nan(snan)" literal.
snan_fits(is_signaling, is_negative, buffer_size) ==
    is_signaling /\ buffer_size >= 9 + BoolInt(is_negative)

to_chars_nonfinite(mem, first, last, is_negative, is_signaling, classification) ==
    LET buffer_size == last - first
    IN  IF classification = "FP_NAN"
        THEN LET m1 == IF is_negative THEN Store(mem, first, LitMinus) ELSE mem
                 f1 == first + BoolInt(is_negative)
             IN  IF snan_fits(is_signaling, is_negative, buffer_size)
                 THEN Result(f1 + 9 + BoolInt(is_negative), "ok", Store(m1, f1, LitNanSnan))
                 ELSE IF is_negative /\ buffer_size >= 9
                 THEN Result(f1 + 8, "ok", Store(m1, f1, LitNanInd))
                 ELSE IF ~is_negative /\ ~is_signaling /\ buffer_size >= 3
                 THEN Result(f1 + 3, "ok", Store(m1, f1, LitNan))
                 ELSE Result(f1, "ERANGE", m1)
        ELSE \* FP_INFINITE
             IF is_negative /\ buffer_size >= 4
             THEN Result(first + 4, "ok", Store(mem, first, LitMinusInf))
             ELSE IF ~is_negative /\ buffer_size >= 3
             THEN Result(first + 3, "ok", Store(mem, first, LitInf))
             ELSE Result(first, "ERANGE", mem)

\* A non-finite value: its class, sign bit and, for a NaN, whether it is
\* signaling.
NonFiniteValues ==
    {[classification |-> "FP_NAN", is_negative |-> n, is_signaling |-> s] :
        n \in BOOLEAN, s \in BOOLEAN}
    \cup {[classification |-> "FP_INFINITE", is_negative |-> n, is_signaling |-> FALSE] :
        n \in BOOLEAN}

InitNonfinite ==
    /\ phase = "call"
    /\ out = NoResult
    /\ op = "to_chars_nonfinite"
    /\ \E v \in NonFiniteValues, size \in 0..MaxBuf, fill \in Fills :
           inp = [value |-> v, first |-> 0, last |-> size, fill |-> fill]

ToCharsNonfinite ==
    /\ op = "to_chars_nonfinite"
    /\ phase = "call"
    /\ out' = to_chars_nonfinite(FreshMemory(inp.fill), inp.first, inp.last,
                                 inp.value.is_negative, inp.value.is_signaling,
                                 inp.value.classification)
    /\ phase' = "return"
    /\ UNCHANGED <<op, inp>>

NextNonfinite == ToCharsNonfinite

SpecNonfinite == InitNonfinite /\ [][NextNonfinite]_vars

\* The literal of a non-finite value, sign included.
NonFiniteLiteral(v) ==
    IF v.classification = "FP_INFINITE"
    THEN (IF v.is_negative THEN LitMinusInf ELSE LitInf)
    ELSE (IF v.is_negative THEN LitMinus ELSE <<>>)
         \o (IF v.is_signaling THEN LitNanSnan
             ELSE IF v.is_negative THEN LitNanInd ELSE LitNan)

\* C9: given a buffer large enough, the non-finite renderer returns ok, has
\* written exactly the value's literal and end - first is the literal's
\* length: "inf" 3, "-inf" 4, "nan" 3, "-nan(ind)" 9, "nan(snan)" 9,
\* "-nan(snan)" 10.
C9_NonFiniteLiteral ==
    (Returned("to_chars_nonfinite")
        /\ inp.last - inp.first >= Len(NonFiniteLiteral(inp.value)))
        => /\ out.ec = "ok"
           /\ out.ptr - inp.first = Len(NonFiniteLiteral(inp.value))
           /\ Chars(out.mem, inp.first, inp.first + Len(NonFiniteLiteral(inp.value)))
                  = NonFiniteLiteral(inp.value)

\* C10: a buffer shorter than sign + literal of the value's own class gives
\* range-error, never ok with another class's literal.
C10_NonFiniteBufferCheck ==
    (Returned("to_chars_nonfinite")
        /\ inp.last - inp.first < Len(NonFiniteLiteral(inp.value)))
        => out.ec = "ERANGE"

(***************************************************************************)
(* Floating-point values.                                                  *)
(*                                                                         *)
(* A value is given by its bit pattern (`bits`: the positions of the bits  *)
(* that are 1, bit 0 the least significant), from which the hex renderer   *)
(* works, together with what the library's collaborators return for it:    *)
(* std::fpclassify, std::signbit and issignaling; to_decimal's shortest    *)
(* decimal significand (a sequence of decimal digits, most significant     *)
(* first) and exponent; static_cast<std::uint64_t>(|value|) (`integer`,    *)
(* given where |value| lies between max_fractional_value and 2^64); and    *)
(* `tens`, how often |value| can be divided by 10 while fmod(|value|, 10)  *)
(* is 0.                                                                   *)
(***************************************************************************)
FloatValues ==
    { [name |-> "0.0", real |-> "double", bits |-> {}, classification |-> "FP_ZERO",
       is_negative |-> FALSE, is_signaling |-> FALSE, significand |-> <<0>>, exponent |-> 0,
       integer |-> <<>>, tens |-> 0],
      [name |-> "-0.0", real |-> "double", bits |-> {63}, classification |-> "FP_ZERO",
       is_negative |-> TRUE, is_signaling |-> FALSE, significand |-> <<0>>, exponent |-> 0,
       integer |-> <<>>, tens |-> 0],
      [name |-> "inf", real |-> "double", bits |-> {52, 53, 54, 55, 56, 57, 58, 59, 60, 61, 62}, classification |-> "FP_INFINITE",
       is_negative |-> FALSE, is_signaling |-> FALSE, significand |-> <<0>>, exponent |-> 0,
       integer |-> <<>>, tens |-> 0],
      [name |-> "-inf", real |-> "double", bits |-> {52, 53, 54, 55, 56, 57, 58, 59, 60, 61, 62, 63}, classification |-> "FP_INFINITE",
       is_negative |-> TRUE, is_signaling |-> FALSE, significand |-> <<0>>, exponent |-> 0,
       integer |-> <<>>, tens |-> 0],
      [name |-> "1e0", real |-> "double", bits |-> {52, 53, 54, 55, 56, 57, 58, 59, 60, 61}, classification |-> "FP_NORMAL",
       is_negative |-> FALSE, is_signaling |-> FALSE, significand |-> <<1>>, exponent |-> 0,
       integer |-> <<>>, tens |-> 0],
      [name |-> "-1e0", real |-> "double", bits |-> {52, 53, 54, 55, 56, 57, 58, 59, 60, 61, 63}, classification |-> "FP_NORMAL",
       is_negative |-> TRUE, is_signaling |-> FALSE, significand |-> <<1>>, exponent |-> 0,
       integer |-> <<>>, tens |-> 0],
      [name |-> "1.5e0", real |-> "double", bits |-> {51, 52, 53, 54, 55, 56, 57, 58, 59, 60, 61}, classification |-> "FP_NORMAL",
       is_negative |-> FALSE, is_signaling |-> FALSE, significand |-> <<1, 5>>, exponent |-> -1,
       integer |-> <<>>, tens |-> 0],
      [name |-> "-1.5e0", real |-> "double", bits |-> {51, 52, 53, 54, 55, 56, 57, 58, 59, 60, 61, 63}, classification |-> "FP_NORMAL",
       is_negative |-> TRUE, is_signaling |-> FALSE, significand |-> <<1, 5>>, exponent |-> -1,
       integer |-> <<>>, tens |-> 0],
      [name |-> "5e-1", real |-> "double", bits |-> {53, 54, 55, 56, 57, 58, 59, 60, 61}, classification |-> "FP_NORMAL",
       is_negative |-> FALSE, is_signaling |-> FALSE, significand |-> <<5>>, exponent |-> -1,
       integer |-> <<>>, tens |-> 0],
      [name |-> "-5e-1", real |-> "double", bits |-> {53, 54, 55, 56, 57, 58, 59, 60, 61, 63}, classification |-> "FP_NORMAL",
       is_negative |-> TRUE, is_signaling |-> FALSE, significand |-> <<5>>, exponent |-> -1,
       integer |-> <<>>, tens |-> 0],
      [name |-> "1e-1", real |-> "double", bits |-> {1, 3, 4, 7, 8, 11, 12, 15, 16, 19, 20, 23, 24, 27, 28, 31, 32, 35, 36, 39, 40, 43, 44, 47, 48, 51, 52, 53, 55, 56, 57, 58, 59, 60, 61}, classification |-> "FP_NORMAL",
       is_negative |-> FALSE, is_signaling |-> FALSE, significand |-> <<1>>, exponent |-> -1,
       integer |-> <<>>, tens |-> 0],
      [name |-> "1e2", real |-> "double", bits |-> {48, 51, 52, 54, 62}, classification |-> "FP_NORMAL",
       is_negative |-> FALSE, is_signaling |-> FALSE, significand |-> <<1>>, exponent |-> 2,
       integer |-> <<>>, tens |-> 2],
      [name |-> "-1e2", real |-> "double", bits |-> {48, 51, 52, 54, 62, 63}, classification |-> "FP_NORMAL",
       is_negative |-> TRUE, is_signaling |-> FALSE, significand |-> <<1>>, exponent |-> 2,
       integer |-> <<>>, tens |-> 2],
      [name |-> "1.2345e3", real |-> "double", bits |-> {41, 43, 46, 48, 49, 52, 55, 62}, classification |-> "FP_NORMAL",
       is_negative |-> FALSE, is_signaling |-> FALSE, significand |-> <<1, 2, 3, 4, 5>>, exponent |-> -1,
       integer |-> <<>>, tens |-> 0],
      [name |-> "1e15", real |-> "double", bits |-> {18, 20, 21, 25, 26, 29, 32, 34, 36, 37, 38, 39, 40, 41, 43, 45, 46, 50, 51, 56, 57, 62}, classification |-> "FP_NORMAL",
       is_negative |-> FALSE, is_signaling |-> FALSE, significand |-> <<1>>, exponent |-> 15,
       integer |-> <<>>, tens |-> 15],
      [name |-> "-1e15", real |-> "double", bits |-> {18, 20, 21, 25, 26, 29, 32, 34, 36, 37, 38, 39, 40, 41, 43, 45, 46, 50, 51, 56, 57, 62, 63}, classification |-> "FP_NORMAL",
       is_negative |-> TRUE, is_signaling |-> FALSE, significand |-> <<1>>, exponent |-> 15,
       integer |-> <<>>, tens |-> 15],
      [name |-> "1.2345678901234567e0", real |-> "double", bits |-> {0, 1, 3, 4, 5, 6, 7, 8, 11, 12, 14, 18, 19, 23, 25, 30, 33, 35, 38, 39, 46, 47, 48, 49, 52, 53, 54, 55, 56, 57, 58, 59, 60, 61}, classification |-> "FP_NORMAL",
       is_negative |-> FALSE, is_signaling |-> FALSE, significand |-> <<1, 2, 3, 4, 5, 6, 7, 8, 9, 0, 1, 2, 3, 4, 5, 6, 7>>, exponent |-> -16,
       integer |-> <<>>, tens |-> 0],
      [name |-> "-1.2345678901234567e0", real |-> "double", bits |-> {0, 1, 3, 4, 5, 6, 7, 8, 11, 12, 14, 18, 19, 23, 25, 30, 33, 35, 38, 39, 46, 47, 48, 49, 52, 53, 54, 55, 56, 57, 58, 59, 60, 61, 63}, classification |-> "FP_NORMAL",
       is_negative |-> TRUE, is_signaling |-> FALSE, significand |-> <<1, 2, 3, 4, 5, 6, 7, 8, 9, 0, 1, 2, 3, 4, 5, 6, 7>>, exponent |-> -16,
       integer |-> <<>>, tens |-> 0],
      [name |-> "9.999999999999998e15", real |-> "double", bits |-> {0, 1, 2, 3, 4, 5, 6, 7, 8, 9, 10, 11, 12, 13, 14, 21, 22, 23, 24, 25, 26, 28, 29, 32, 35, 36, 37, 38, 40, 41, 46, 47, 48, 54, 56, 57, 62}, classification |-> "FP_NORMAL",
       is_negative |-> FALSE, is_signaling |-> FALSE, significand |-> <<9, 9, 9, 9, 9, 9, 9, 9, 9, 9, 9, 9, 9, 9, 9, 8>>, exponent |-> 0,
       integer |-> <<>>, tens |-> 0],
      [name |-> "1e16", real |-> "double", bits |-> {15, 21, 22, 23, 24, 25, 26, 28, 29, 32, 35, 36, 37, 38, 40, 41, 46, 47, 48, 54, 56, 57, 62}, classification |-> "FP_NORMAL",
       is_negative |-> FALSE, is_signaling |-> FALSE, significand |-> <<1>>, exponent |-> 16,
       integer |-> <<1, 0, 0, 0, 0, 0, 0, 0, 0, 0, 0, 0, 0, 0, 0, 0, 0>>, tens |-> 16],
      [name |-> "1e17", real |-> "double", bits |-> {13, 15, 19, 20, 22, 23, 24, 26, 31, 32, 33, 34, 36, 38, 42, 44, 45, 49, 50, 52, 53, 54, 56, 57, 62}, classification |-> "FP_NORMAL",
       is_negative |-> FALSE, is_signaling |-> FALSE, significand |-> <<1>>, exponent |-> 17,
       integer |-> <<1, 0, 0, 0, 0, 0, 0, 0, 0, 0, 0, 0, 0, 0, 0, 0, 0, 0>>, tens |-> 17],
      [name |-> "-1e17", real |-> "double", bits |-> {13, 15, 19, 20, 22, 23, 24, 26, 31, 32, 33, 34, 36, 38, 42, 44, 45, 49, 50, 52, 53, 54, 56, 57, 62, 63}, classification |-> "FP_NORMAL",
       is_negative |-> TRUE, is_signaling |-> FALSE, significand |-> <<1>>, exponent |-> 17,
       integer |-> <<1, 0, 0, 0, 0, 0, 0, 0, 0, 0, 0, 0, 0, 0, 0, 0, 0, 0>>, tens |-> 17],
      [name |-> "1.2345678901234568e18", real |-> "double", bits |-> {0, 7, 8, 11, 13, 14, 15, 16, 18, 19, 20, 21, 22, 26, 28, 29, 30, 31, 36, 41, 45, 48, 52, 53, 55, 56, 57, 62}, classification |-> "FP_NORMAL",
       is_negative |-> FALSE, is_signaling |-> FALSE, significand |-> <<1, 2, 3, 4, 5, 6, 7, 8, 9, 0, 1, 2, 3, 4, 5, 6, 8>>, exponent |-> 2,
       integer |-> <<1, 2, 3, 4, 5, 6, 7, 8, 9, 0, 1, 2, 3, 4, 5, 6, 7, 6, 8>>, tens |-> 0],
      [name |-> "1.8446744073709552e19", real |-> "double", bits |-> {52, 53, 54, 55, 56, 57, 62}, classification |-> "FP_NORMAL",
       is_negative |-> FALSE, is_signaling |-> FALSE, significand |-> <<1, 8, 4, 4, 6, 7, 4, 4, 0, 7, 3, 7, 0, 9, 5, 5, 2>>, exponent |-> 3,
       integer |-> <<>>, tens |-> 0],
      [name |-> "1e22", real |-> "double", bits |-> {1, 4, 7, 8, 10, 12, 14, 15, 16, 18, 19, 22, 25, 26, 32, 33, 34, 35, 38, 39, 44, 45, 46, 47, 55, 58, 62}, classification |-> "FP_NORMAL",
       is_negative |-> FALSE, is_signaling |-> FALSE, significand |-> <<1>>, exponent |-> 22,
       integer |-> <<>>, tens |-> 22],
      [name |-> "1e-4", real |-> "double", bits |-> {0, 2, 3, 5, 8, 9, 14, 18, 19, 20, 24, 25, 27, 29, 30, 31, 33, 37, 38, 39, 41, 42, 44, 45, 49, 51, 52, 56, 57, 58, 59, 60, 61}, classification |-> "FP_NORMAL",
       is_negative |-> FALSE, is_signaling |-> FALSE, significand |-> <<1>>, exponent |-> -4,
       integer |-> <<>>, tens |-> 0],
      [name |-> "1e-5", real |-> "double", bits |-> {0, 4, 5, 6, 7, 11, 13, 14, 16, 17, 21, 22, 23, 27, 31, 32, 34, 36, 37, 39, 43, 44, 45, 46, 47, 50, 53, 54, 55, 57, 58, 59, 60, 61}, classification |-> "FP_NORMAL",
       is_negative |-> FALSE, is_signaling |-> FALSE, significand |-> <<1>>, exponent |-> -5,
       integer |-> <<>>, tens |-> 0],
      [name |-> "1e-3", real |-> "double", bits |-> {2, 3, 4, 5, 6, 7, 8, 11, 13, 15, 16, 20, 21, 22, 23, 25, 28, 30, 31, 32, 34, 35, 38, 41, 45, 46, 52, 54, 56, 57, 58, 59, 60, 61}, classification |-> "FP_NORMAL",
       is_negative |-> FALSE, is_signaling |-> FALSE, significand |-> <<1>>, exponent |-> -3,
       integer |-> <<>>, tens |-> 0],
      [name |-> "5e-324", real |-> "double", bits |-> {0}, classification |-> "FP_SUBNORMAL",
       is_negative |-> FALSE, is_signaling |-> FALSE, significand |-> <<5>>, exponent |-> -324,
       integer |-> <<>>, tens |-> 0],
      [name |-> "-5e-324", real |-> "double", bits |-> {0, 63}, classification |-> "FP_SUBNORMAL",
       is_negative |-> TRUE, is_signaling |-> FALSE, significand |-> <<5>>, exponent |-> -324,
       integer |-> <<>>, tens |-> 0],
      [name |-> "2.2250738585072014e-308", real |-> "double", bits |-> {52}, classification |-> "FP_NORMAL",
       is_negative |-> FALSE, is_signaling |-> FALSE, significand |-> <<2, 2, 2, 5, 0, 7, 3, 8, 5, 8, 5, 0, 7, 2, 0, 1, 4>>, exponent |-> -324,
       integer |-> <<>>, tens |-> 0],
      [name |-> "1.7976931348623157e308", real |-> "double", bits |-> {0, 1, 2, 3, 4, 5, 6, 7, 8, 9, 10, 11, 12, 13, 14, 15, 16, 17, 18, 19, 20, 21, 22, 23, 24, 25, 26, 27, 28, 29, 30, 31, 32, 33, 34, 35, 36, 37, 38, 39, 40, 41, 42, 43, 44, 45, 46, 47, 48, 49, 50, 51, 53, 54, 55, 56, 57, 58, 59, 60, 61, 62}, classification |-> "FP_NORMAL",
       is_negative |-> FALSE, is_signaling |-> FALSE, significand |-> <<1, 7, 9, 7, 6, 9, 3, 1, 3, 4, 8, 6, 2, 3, 1, 5, 7>>, exponent |-> 292,
       integer |-> <<>>, tens |-> 0],
      [name |-> "-1.7976931348623157e308", real |-> "double", bits |-> {0, 1, 2, 3, 4, 5, 6, 7, 8, 9, 10, 11, 12, 13, 14, 15, 16, 17, 18, 19, 20, 21, 22, 23, 24, 25, 26, 27, 28, 29, 30, 31, 32, 33, 34, 35, 36, 37, 38, 39, 40, 41, 42, 43, 44, 45, 46, 47, 48, 49, 50, 51, 53, 54, 55, 56, 57, 58, 59, 60, 61, 62, 63}, classification |-> "FP_NORMAL",
       is_negative |-> TRUE, is_signaling |-> FALSE, significand |-> <<1, 7, 9, 7, 6, 9, 3, 1, 3, 4, 8, 6, 2, 3, 1, 5, 7>>, exponent |-> 292,
       integer |-> <<>>, tens |-> 0],
      [name |-> "9.99e-1", real |-> "double", bits |-> {0, 1, 3, 5, 8, 9, 10, 15, 17, 18, 20, 24, 27, 28, 30, 31, 33, 34, 35, 38, 39, 40, 41, 42, 44, 45, 46, 47, 48, 49, 50, 51, 53, 54, 55, 56, 57, 58, 59, 60, 61}, classification |-> "FP_NORMAL",
       is_negative |-> FALSE, is_signaling |-> FALSE, significand |-> <<9, 9, 9>>, exponent |-> -3,
       integer |-> <<>>, tens |-> 0],
      [name |-> "9.5e0", real |-> "double", bits |-> {48, 49, 53, 62}, classification |-> "FP_NORMAL",
       is_negative |-> FALSE, is_signaling |-> FALSE, significand |-> <<9, 5>>, exponent |-> -1,
       integer |-> <<>>, tens |-> 0],
      [name |-> "2.5599609375e2", real |-> "double", bits |-> {37, 38, 39, 40, 41, 42, 43, 44, 45, 46, 47, 48, 49, 50, 51, 53, 54, 62}, classification |-> "FP_NORMAL",
       is_negative |-> FALSE, is_signaling |-> FALSE, significand |-> <<2, 5, 5, 9, 9, 6, 0, 9, 3, 7, 5>>, exponent |-> -8,
       integer |-> <<>>, tens |-> 0],
      [name |-> "1.0000000000000002e0", real |-> "double", bits |-> {0, 52, 53, 54, 55, 56, 57, 58, 59, 60, 61}, classification |-> "FP_NORMAL",
       is_negative |-> FALSE, is_signaling |-> FALSE, significand |-> <<1, 0, 0, 0, 0, 0, 0, 0, 0, 0, 0, 0, 0, 0, 0, 0, 2>>, exponent |-> -16,
       integer |-> <<>>, tens |-> 0],
      [name |-> "1.9999999999999998e0", real |-> "double", bits |-> {0, 1, 2, 3, 4, 5, 6, 7, 8, 9, 10, 11, 12, 13, 14, 15, 16, 17, 18, 19, 20, 21, 22, 23, 24, 25, 26, 27, 28, 29, 30, 31, 32, 33, 34, 35, 36, 37, 38, 39, 40, 41, 42, 43, 44, 45, 46, 47, 48, 49, 50, 51, 52, 53, 54, 55, 56, 57, 58, 59, 60, 61}, classification |-> "FP_NORMAL",
       is_negative |-> FALSE, is_signaling |-> FALSE, significand |-> <<1, 9, 9, 9, 9, 9, 9, 9, 9, 9, 9, 9, 9, 9, 9, 9, 8>>, exponent |-> -16,
       integer |-> <<>>, tens |-> 0],
      [name |-> "nan", real |-> "double", bits |-> {51, 52, 53, 54, 55, 56, 57, 58, 59, 60, 61, 62}, classification |-> "FP_NAN",
       is_negative |-> FALSE, is_signaling |-> FALSE, significand |-> <<0>>, exponent |-> 0,
       integer |-> <<>>, tens |-> 0],
      [name |-> "-nan", real |-> "double", bits |-> {51, 52, 53, 54, 55, 56, 57, 58, 59, 60, 61, 62, 63}, classification |-> "FP_NAN",
       is_negative |-> TRUE, is_signaling |-> FALSE, significand |-> <<0>>, exponent |-> 0,
       integer |-> <<>>, tens |-> 0],
      [name |-> "snan", real |-> "double", bits |-> {50, 52, 53, 54, 55, 56, 57, 58, 59, 60, 61, 62}, classification |-> "FP_NAN",
       is_negative |-> FALSE, is_signaling |-> TRUE, significand |-> <<0>>, exponent |-> 0,
       integer |-> <<>>, tens |-> 0],
      [name |-> "-snan", real |-> "double", bits |-> {50, 52, 53, 54, 55, 56, 57, 58, 59, 60, 61, 62, 63}, classification |-> "FP_NAN",
       is_negative |-> TRUE, is_signaling |-> TRUE, significand |-> <<0>>, exponent |-> 0,
       integer |-> <<>>, tens |-> 0],
      [name |-> "0.0", real |-> "float", bits |-> {}, classification |-> "FP_ZERO",
       is_negative |-> FALSE, is_signaling |-> FALSE, significand |-> <<0>>, exponent |-> 0,
       integer |-> <<>>, tens |-> 0],
      [name |-> "-0.0", real |-> "float", bits |-> {31}, classification |-> "FP_ZERO",
       is_negative |-> TRUE, is_signaling |-> FALSE, significand |-> <<0>>, exponent |-> 0,
       integer |-> <<>>, tens |-> 0],
      [name |-> "inf", real |-> "float", bits |-> {23, 24, 25, 26, 27, 28, 29, 30}, classification |-> "FP_INFINITE",
       is_negative |-> FALSE, is_signaling |-> FALSE, significand |-> <<0>>, exponent |-> 0,
       integer |-> <<>>, tens |-> 0],
      [name |-> "-inf", real |-> "float", bits |-> {23, 24, 25, 26, 27, 28, 29, 30, 31}, classification |-> "FP_INFINITE",
       is_negative |-> TRUE, is_signaling |-> FALSE, significand |-> <<0>>, exponent |-> 0,
       integer |-> <<>>, tens |-> 0],
      [name |-> "1e0", real |-> "float", bits |-> {23, 24, 25, 26, 27, 28, 29}, classification |-> "FP_NORMAL",
       is_negative |-> FALSE, is_signaling |-> FALSE, significand |-> <<1>>, exponent |-> 0,
       integer |-> <<>>, tens |-> 0],
      [name |-> "-1e0", real |-> "float", bits |-> {23, 24, 25, 26, 27, 28, 29, 31}, classification |-> "FP_NORMAL",
       is_negative |-> TRUE, is_signaling |-> FALSE, significand |-> <<1>>, exponent |-> 0,
       integer |-> <<>>, tens |-> 0],
      [name |-> "1.5e0", real |-> "float", bits |-> {22, 23, 24, 25, 26, 27, 28, 29}, classification |-> "FP_NORMAL",
       is_negative |-> FALSE, is_signaling |-> FALSE, significand |-> <<1, 5>>, exponent |-> -1,
       integer |-> <<>>, tens |-> 0],
      [name |-> "-1.5e0", real |-> "float", bits |-> {22, 23, 24, 25, 26, 27, 28, 29, 31}, classification |-> "FP_NORMAL",
       is_negative |-> TRUE, is_signaling |-> FALSE, significand |-> <<1, 5>>, exponent |-> -1,
       integer |-> <<>>, tens |-> 0],
      [name |-> "5e-1", real |-> "float", bits |-> {24, 25, 26, 27, 28, 29}, classification |-> "FP_NORMAL",
       is_negative |-> FALSE, is_signaling |-> FALSE, significand |-> <<5>>, exponent |-> -1,
       integer |-> <<>>, tens |-> 0],
      [name |-> "-5e-1", real |-> "float", bits |-> {24, 25, 26, 27, 28, 29, 31}, classification |-> "FP_NORMAL",
       is_negative |-> TRUE, is_signaling |-> FALSE, significand |-> <<5>>, exponent |-> -1,
       integer |-> <<>>, tens |-> 0],
      [name |-> "1e-1", real |-> "float", bits |-> {0, 2, 3, 6, 7, 10, 11, 14, 15, 18, 19, 22, 23, 24, 26, 27, 28, 29}, classification |-> "FP_NORMAL",
       is_negative |-> FALSE, is_signaling |-> FALSE, significand |-> <<1>>, exponent |-> -1,
       integer |-> <<>>, tens |-> 0],
      [name |-> "1e2", real |-> "float", bits |-> {19, 22, 23, 25, 30}, classification |-> "FP_NORMAL",
       is_negative |-> FALSE, is_signaling |-> FALSE, significand |-> <<1>>, exponent |-> 2,
       integer |-> <<>>, tens |-> 2],
      [name |-> "-1e2", real |-> "float", bits |-> {19, 22, 23, 25, 30, 31}, classification |-> "FP_NORMAL",
       is_negative |-> TRUE, is_signaling |-> FALSE, significand |-> <<1>>, exponent |-> 2,
       integer |-> <<>>, tens |-> 2],
      [name |-> "1.2345e3", real |-> "float", bits |-> {12, 14, 17, 19, 20, 23, 26, 30}, classification |-> "FP_NORMAL",
       is_negative |-> FALSE, is_signaling |-> FALSE, significand |-> <<1, 2, 3, 4, 5>>, exponent |-> -1,
       integer |-> <<>>, tens |-> 0],
      [name |-> "1e6", real |-> "float", bits |-> {10, 13, 18, 20, 21, 22, 24, 27, 30}, classification |-> "FP_NORMAL",
       is_negative |-> FALSE, is_signaling |-> FALSE, significand |-> <<1>>, exponent |-> 6,
       integer |-> <<>>, tens |-> 6],
      [name |-> "-1e6", real |-> "float", bits |-> {10, 13, 18, 20, 21, 22, 24, 27, 30, 31}, classification |-> "FP_NORMAL",
       is_negative |-> TRUE, is_signaling |-> FALSE, significand |-> <<1>>, exponent |-> 6,
       integer |-> <<>>, tens |-> 6],
      [name |-> "1.0000001e0", real |-> "float", bits |-> {0, 23, 24, 25, 26, 27, 28, 29}, classification |-> "FP_NORMAL",
       is_negative |-> FALSE, is_signaling |-> FALSE, significand |-> <<1, 0, 0, 0, 0, 0, 0, 1>>, exponent |-> -7,
       integer |-> <<>>, tens |-> 0],
      [name |-> "1.2345679e0", real |-> "float", bits |-> {1, 4, 6, 9, 10, 17, 18, 19, 20, 23, 24, 25, 26, 27, 28, 29}, classification |-> "FP_NORMAL",
       is_negative |-> FALSE, is_signaling |-> FALSE, significand |-> <<1, 2, 3, 4, 5, 6, 7, 9>>, exponent |-> -7,
       integer |-> <<>>, tens |-> 0],
      [name |-> "-1.2345679e0", real |-> "float", bits |-> {1, 4, 6, 9, 10, 17, 18, 19, 20, 23, 24, 25, 26, 27, 28, 29, 31}, classification |-> "FP_NORMAL",
       is_negative |-> TRUE, is_signaling |-> FALSE, significand |-> <<1, 2, 3, 4, 5, 6, 7, 9>>, exponent |-> -7,
       integer |-> <<>>, tens |-> 0],
      [name |-> "9.999999e6", real |-> "float", bits |-> {0, 1, 2, 3, 4, 5, 6, 9, 10, 12, 15, 19, 20, 24, 25, 27, 30}, classification |-> "FP_NORMAL",
       is_negative |-> FALSE, is_signaling |-> FALSE, significand |-> <<9, 9, 9, 9, 9, 9, 9>>, exponent |-> 0,
       integer |-> <<>>, tens |-> 0],
      [name |-> "1e7", real |-> "float", bits |-> {7, 9, 10, 12, 15, 19, 20, 24, 25, 27, 30}, classification |-> "FP_NORMAL",
       is_negative |-> FALSE, is_signaling |-> FALSE, significand |-> <<1>>, exponent |-> 7,
       integer |-> <<1, 0, 0, 0, 0, 0, 0, 0>>, tens |-> 7],
      [name |-> "1e8", real |-> "float", bits |-> {5, 10, 11, 12, 13, 15, 17, 18, 19, 20, 21, 23, 26, 27, 30}, classification |-> "FP_NORMAL",
       is_negative |-> FALSE, is_signaling |-> FALSE, significand |-> <<1>>, exponent |-> 8,
       integer |-> <<1, 0, 0, 0, 0, 0, 0, 0, 0>>, tens |-> 8],
      [name |-> "-1e8", real |-> "float", bits |-> {5, 10, 11, 12, 13, 15, 17, 18, 19, 20, 21, 23, 26, 27, 30, 31}, classification |-> "FP_NORMAL",
       is_negative |-> TRUE, is_signaling |-> FALSE, significand |-> <<1>>, exponent |-> 8,
       integer |-> <<1, 0, 0, 0, 0, 0, 0, 0, 0>>, tens |-> 8],
      [name |-> "4.294967e9", real |-> "float", bits |-> {0, 1, 2, 3, 4, 5, 6, 7, 8, 9, 10, 11, 12, 13, 14, 15, 16, 17, 18, 19, 20, 21, 22, 24, 25, 26, 27, 30}, classification |-> "FP_NORMAL",
       is_negative |-> FALSE, is_signaling |-> FALSE, significand |-> <<4, 2, 9, 4, 9, 6, 7>>, exponent |-> 3,
       integer |-> <<4, 2, 9, 4, 9, 6, 7, 0, 4, 0>>, tens |-> 1],
      [name |-> "4.2949673e9", real |-> "float", bits |-> {23, 24, 25, 26, 27, 30}, classification |-> "FP_NORMAL",
       is_negative |-> FALSE, is_signaling |-> FALSE, significand |-> <<4, 2, 9, 4, 9, 6, 7, 3>>, exponent |-> 2,
       integer |-> <<4, 2, 9, 4, 9, 6, 7, 2, 9, 6>>, tens |-> 0],
      [name |-> "1e22", real |-> "float", bits |-> {3, 4, 5, 6, 9, 10, 15, 16, 17, 18, 26, 29, 30}, classification |-> "FP_NORMAL",
       is_negative |-> FALSE, is_signaling |-> FALSE, significand |-> <<1>>, exponent |-> 22,
       integer |-> <<>>, tens |-> 0],
      [name |-> "1e-4", real |-> "float", bits |-> {0, 1, 2, 4, 8, 9, 10, 12, 13, 15, 16, 20, 22, 23, 27, 28, 29}, classification |-> "FP_NORMAL",
       is_negative |-> FALSE, is_signaling |-> FALSE, significand |-> <<1>>, exponent |-> -4,
       integer |-> <<>>, tens |-> 0],
      [name |-> "1e-5", real |-> "float", bits |-> {2, 3, 5, 7, 8, 10, 14, 15, 16, 17, 18, 21, 24, 25, 26, 28, 29}, classification |-> "FP_NORMAL",
       is_negative |-> FALSE, is_signaling |-> FALSE, significand |-> <<1>>, exponent |-> -5,
       integer |-> <<>>, tens |-> 0],
      [name |-> "1e-3", real |-> "float", bits |-> {0, 1, 2, 3, 5, 6, 9, 12, 16, 17, 23, 25, 27, 28, 29}, classification |-> "FP_NORMAL",
       is_negative |-> FALSE, is_signaling |-> FALSE, significand |-> <<1>>, exponent |-> -3,
       integer |-> <<>>, tens |-> 0],
      [name |-> "1e-45", real |-> "float", bits |-> {0}, classification |-> "FP_SUBNORMAL",
       is_negative |-> FALSE, is_signaling |-> FALSE, significand |-> <<1>>, exponent |-> -45,
       integer |-> <<>>, tens |-> 0],
      [name |-> "-1e-45", real |-> "float", bits |-> {0, 31}, classification |-> "FP_SUBNORMAL",
       is_negative |-> TRUE, is_signaling |-> FALSE, significand |-> <<1>>, exponent |-> -45,
       integer |-> <<>>, tens |-> 0],
      [name |-> "1.1754944e-38", real |-> "float", bits |-> {23}, classification |-> "FP_NORMAL",
       is_negative |-> FALSE, is_signaling |-> FALSE, significand |-> <<1, 1, 7, 5, 4, 9, 4, 4>>, exponent |-> -45,
       integer |-> <<>>, tens |-> 0],
      [name |-> "3.4028235e38", real |-> "float", bits |-> {0, 1, 2, 3, 4, 5, 6, 7, 8, 9, 10, 11, 12, 13, 14, 15, 16, 17, 18, 19, 20, 21, 22, 24, 25, 26, 27, 28, 29, 30}, classification |-> "FP_NORMAL",
       is_negative |-> FALSE, is_signaling |-> FALSE, significand |-> <<3, 4, 0, 2, 8, 2, 3, 5>>, exponent |-> 31,
       integer |-> <<>>, tens |-> 1],
      [name |-> "-3.4028235e38", real |-> "float", bits |-> {0, 1, 2, 3, 4, 5, 6, 7, 8, 9, 10, 11, 12, 13, 14, 15, 16, 17, 18, 19, 20, 21, 22, 24, 25, 26, 27, 28, 29, 30, 31}, classification |-> "FP_NORMAL",
       is_negative |-> TRUE, is_signaling |-> FALSE, significand |-> <<3, 4, 0, 2, 8, 2, 3, 5>>, exponent |-> 31,
       integer |-> <<>>, tens |-> 1],
      [name |-> "9.99e-1", real |-> "float", bits |-> {0, 1, 2, 4, 5, 6, 9, 10, 11, 12, 13, 15, 16, 17, 18, 19, 20, 21, 22, 24, 25, 26, 27, 28, 29}, classification |-> "FP_NORMAL",
       is_negative |-> FALSE, is_signaling |-> FALSE, significand |-> <<9, 9, 9>>, exponent |-> -3,
       integer |-> <<>>, tens |-> 0],
      [name |-> "9.5e0", real |-> "float", bits |-> {19, 20, 24, 30}, classification |-> "FP_NORMAL",
       is_negative |-> FALSE, is_signaling |-> FALSE, significand |-> <<9, 5>>, exponent |-> -1,
       integer |-> <<>>, tens |-> 0],
      [name |-> "2.559961e2", real |-> "float", bits |-> {8, 9, 10, 11, 12, 13, 14, 15, 16, 17, 18, 19, 20, 21, 22, 24, 25, 30}, classification |-> "FP_NORMAL",
       is_negative |-> FALSE, is_signaling |-> FALSE, significand |-> <<2, 5, 5, 9, 9, 6, 1>>, exponent |-> -4,
       integer |-> <<>>, tens |-> 0],
      [name |-> "1.9999999e0", real |-> "float", bits |-> {0, 1, 2, 3, 4, 5, 6, 7, 8, 9, 10, 11, 12, 13, 14, 15, 16, 17, 18, 19, 20, 21, 22, 23, 24, 25, 26, 27, 28, 29}, classification |-> "FP_NORMAL",
       is_negative |-> FALSE, is_signaling |-> FALSE, significand |-> <<1, 9, 9, 9, 9, 9, 9, 9>>, exponent |-> -7,
       integer |-> <<>>, tens |-> 0],
      [name |-> "8.38861e6", real |-> "float", bits |-> {1, 24, 25, 27, 30}, classification |-> "FP_NORMAL",
       is_negative |-> FALSE, is_signaling |-> FALSE, significand |-> <<8, 3, 8, 8, 6, 1>>, exponent |-> 1,
       integer |-> <<>>, tens |-> 1],
      [name |-> "1.0000004e0", real |-> "float", bits |-> {0, 1, 23, 24, 25, 26, 27, 28, 29}, classification |-> "FP_NORMAL",
       is_negative |-> FALSE, is_signaling |-> FALSE, significand |-> <<1, 0, 0, 0, 0, 0, 0, 4>>, exponent |-> -7,
       integer |-> <<>>, tens |-> 0],
      [name |-> "-1.0000004e0", real |-> "float", bits |-> {0, 1, 23, 24, 25, 26, 27, 28, 29, 31}, classification |-> "FP_NORMAL",
       is_negative |-> TRUE, is_signaling |-> FALSE, significand |-> <<1, 0, 0, 0, 0, 0, 0, 4>>, exponent |-> -7,
       integer |-> <<>>, tens |-> 0],
      [name |-> "nan", real |-> "float", bits |-> {22, 23, 24, 25, 26, 27, 28, 29, 30}, classification |-> "FP_NAN",
       is_negative |-> FALSE, is_signaling |-> FALSE, significand |-> <<0>>, exponent |-> 0,
       integer |-> <<>>, tens |-> 0],
      [name |-> "-nan", real |-> "float", bits |-> {22, 23, 24, 25, 26, 27, 28, 29, 30, 31}, classification |-> "FP_NAN",
       is_negative |-> TRUE, is_signaling |-> FALSE, significand |-> <<0>>, exponent |-> 0,
       integer |-> <<>>, tens |-> 0],
      [name |-> "snan", real |-> "float", bits |-> {21, 23, 24, 25, 26, 27, 28, 29, 30}, classification |-> "FP_NAN",
       is_negative |-> FALSE, is_signaling |-> TRUE, significand |-> <<0>>, exponent |-> 0,
       integer |-> <<>>, tens |-> 0],
      [name |-> "-snan", real |-> "float", bits |-> {21, 23, 24, 25, 26, 27, 28, 29, 30, 31}, classification |-> "FP_NAN",
       is_negative |-> TRUE, is_signaling |-> TRUE, significand |-> <<0>>, exponent |-> 0,
       integer |-> <<>>, tens |-> 0] }


Formats == {"fixed", "scientific", "hex", "general"}

IsFinite(v) == v.classification \in {"FP_NORMAL", "FP_SUBNORMAL", "FP_ZERO"}

\* value < 0: false for a NaN and for -0.0
IsLessThanZero(v) ==
    v.is_negative /\ v.classification \in {"FP_NORMAL", "FP_SUBNORMAL", "FP_INFINITE"}

\* The decimal d * 10^e, d a digit sequence without leading zero, compared
\* with the decimal t.d * 10^t.e: -1, 0 or 1.
RECURSIVE CompareDigits(_, _, _)
CompareDigits(a, b, i) ==
    IF i > Len(a) /\ i > Len(b) THEN 0
    ELSE LET x == IF i <= Len(a) THEN a[i] ELSE 0
             y == IF i <= Len(b) THEN b[i] ELSE 0
         IN  IF x < y THEN -1 ELSE IF x > y THEN 1 ELSE CompareDigits(a, b, i + 1)

CompareDecimal(d, e, t) ==
    IF Len(d) + e < Len(t.d) + t.e THEN -1
    ELSE IF Len(d) + e > Len(t.d) + t.e THEN 1
    ELSE CompareDigits(d, t.d, 1)

\* abs_value >= t and abs_value < t for a positive threshold t: both false
\* for a NaN.
AbsGE(v, t) ==
    \/ v.classification = "FP_INFINITE"
    \/ /\ v.classification \in {"FP_NORMAL", "FP_SUBNORMAL"}
       /\ CompareDecimal(v.significand, v.exponent, t) >= 0

AbsLT(v, t) ==
    \/ v.classification = "FP_ZERO"
    \/ /\ v.classification \in {"FP_NORMAL", "FP_SUBNORMAL"}
       /\ CompareDecimal(v.significand, v.exponent, t) < 0

One == [d |-> <<1>>, e |-> 0]

\* lines 605-607 of to_chars_float_impl
max_fractional_value(real) ==
    IF real = "double" THEN [d |-> <<1>>, e |-> 16] ELSE [d |-> <<1>>, e |-> 7]

min_fractional_value == [d |-> <<1>>, e |-> -4]

\* static_cast<Real>(max of std::uint64_t / std::uint32_t): 2^64 and 2^32,
\* by their shortest decimals.
max_value(real) ==
    IF real = "double"
    THEN [d |-> <<1, 8, 4, 4, 6, 7, 4, 4, 0, 7, 3, 7, 0, 9, 5, 5, 2>>, e |-> 3]
    ELSE [d |-> <<4, 2, 9, 4, 9, 6, 7, 3>>, e |-> 2]

\* digit_table
digit_table ==
    <<"0", "1", "2", "3", "4", "5", "6", "7", "8", "9", "a", "b", "c", "d", "e", "f">>

\* The characters of a digit sequence.
Glyphs(digits) == [k \in 1..Len(digits) |-> digit_table[digits[k] + 1]]

Repeat(c, n) == [k \in 1..n |-> c]

\* The decimal digits of a natural number, most significant first.
RECURSIVE DecimalDigits(_)
DecimalDigits(n) ==
    IF n < 10 THEN <<n>> ELSE Append(DecimalDigits(n \div 10), n % 10)

Abs(n) == IF n < 0 THEN -n ELSE n

\* num_digits(x): the number of decimal digits of x.
num_digits(x) == Len(DecimalDigits(Abs(x)))

\* get_real_precision<Real>(precision): max_digits10 of Real when the
\* precision is unspecified.
get_real_precision(real, precision) ==
    IF precision = -1 THEN (IF real = "float" THEN 9 ELSE 17) ELSE precision

\* total_buffer_length(real_precision, exp, signed_value): sign + leading
\* digit + '.' + real_precision digits + exponent letter + exponent sign +
\* exponent digits.
total_buffer_length(real_precision, exp, signed_value) ==
    BoolInt(signed_value) + 2 + real_precision + 2 + num_digits(exp)

\* to_chars_integer_impl(first, last, n) / to_chars_int: the decimal digits
\* of n when they fit in [first, last), no write otherwise.
to_chars_integer_impl(mem, first, last, digits) ==
    IF last - first < Len(digits)
    THEN Result(last, "ERANGE", mem)
    ELSE Result(first + Len(digits), "ok", Store(mem, first, Glyphs(digits)))

\* A digit generator of another component (dragonbox_to_chars on a finite
\* value, floff): it needs `len` characters, writes them when they fit in
\* [first, last) and writes nothing otherwise.
external_digits(mem, first, last, len) ==
    IF last - first < len
    THEN Result(last, "ERANGE", mem)
    ELSE Result(first + len, "ok", Store(mem, first, Repeat("#", len)))

\* dragonbox_to_chars(value, first, last, fmt): the non-finite renderer for
\* an infinity or a NaN, the shortest digits otherwise.
dragonbox_to_chars(mem, first, last, v, len) ==
    IF v.classification \in {"FP_NAN", "FP_INFINITE"}
    THEN to_chars_nonfinite(mem, first, last, v.is_negative, v.is_signaling,
                            v.classification)
    ELSE external_digits(mem, first, last, len)

(***************************************************************************)
(* to_chars_fixed_impl (lines 479-591).  The significand of to_decimal is  *)
(* a sequence of decimal digits, most significant first.                   *)
(***************************************************************************)
\* significand / 10, significand % 10, ++significand
DivTen(d) == IF Len(d) <= 1 THEN <<0>> ELSE SubSeq(d, 1, Len(d) - 1)

ModTen(d) == d[Len(d)]

RECURSIVE Increment(_)
Increment(d) ==
    IF d = <<>> THEN <<1>>
    ELSE IF d[Len(d)] < 9 THEN [d EXCEPT ![Len(d)] = @ + 1]
    ELSE Append(Increment(SubSeq(d, 1, Len(d) - 1)), 0)

Decimal(significand, exponent, num_dig) ==
    [significand |-> significand, exponent |-> exponent, num_dig |-> num_dig]

\* lines 501-506: while (num_dig > precision + 2) drop a digit
RECURSIVE drop_digits(_, _)
drop_digits(x, precision) ==
    IF x.num_dig > precision + 2
    THEN drop_digits(Decimal(DivTen(x.significand), x.exponent + 1, x.num_dig - 1),
                     precision)
    ELSE x

\* lines 508-519: at precision + 2 digits, drop one more and round on it
round_last_digit(x, precision) ==
    IF x.num_dig = precision + 2
    THEN LET q == DivTen(x.significand)
         IN  Decimal(IF ModTen(x.significand) >= 5 THEN Increment(q) ELSE q,
                     x.exponent + 1, x.num_dig - 1)
    ELSE x

\* lines 522-530: general notation drops the trailing zeros.  The source's
\* loop has no exit at significand 0; the digits stop at <<0>> here.
RECURSIVE strip_zeros(_)
strip_zeros(x) ==
    IF ModTen(x.significand) = 0 /\ x.significand # <<0>>
    THEN strip_zeros(Decimal(DivTen(x.significand), x.exponent + 1, x.num_dig - 1))
    ELSE x

\* lines 497-531: the decimal the renderer goes on with
reduce_precision(v, fmt, precision) ==
    IF precision = -1
    THEN Decimal(v.significand, v.exponent, 0)
    ELSE LET a == drop_digits(Decimal(v.significand, v.exponent, Len(v.significand)),
                              precision)
             b == round_last_digit(a, precision)
         IN  IF fmt = "general" THEN strip_zeros(b) ELSE b

\* std::memmove(dst, src, n)
Move(m, dst, src, n) ==
    IF n <= 0 THEN m ELSE Store(m, dst, Chars(m, src, src + n))

\* lines 547-562: |value| >= 1
fixed_point_and_zeros(m, r_ptr, x, buffer_size, tens) ==
    LET pointed == x.exponent < 0 /\ -x.exponent < buffer_size
        m1 == IF pointed
              THEN Store(Move(m, r_ptr + x.exponent + 1, r_ptr + x.exponent, -x.exponent),
                         r_ptr + x.exponent, <<".">>)
              ELSE m
        p1 == IF pointed THEN r_ptr + 1 ELSE r_ptr
    IN  Result(p1 + tens, "ok", Store(m1, p1, Repeat("0", tens)))

\* lines 563-588: |value| < 1
fixed_leading_zeros(m, first, r_ptr, x, is_negative) ==
    LET neg == BoolInt(is_negative)
        offset_bytes == -x.exponent - x.num_dig
        m1 == Move(m, first + 2 + neg + offset_bytes, first + neg,
                   -x.exponent - offset_bytes)
        m2 == Store(m1, first + neg, <<"0", ".">>)
        zeros == IF x.num_dig < -x.exponent THEN -x.exponent - x.num_dig ELSE 0
    IN  Result(r_ptr + 2 + zeros, "ok", Store(m2, first + 2, Repeat("0", zeros)))

to_chars_fixed_impl(mem, first, last, v, fmt, precision) ==
    LET buffer_size == last - first
        real_precision == get_real_precision(v.real, precision)
    IN  IF buffer_size < real_precision \/ first > last
        THEN Result(last, "ERANGE", mem)
        ELSE
        LET m1 == IF v.is_negative THEN Store(mem, first, LitMinus) ELSE mem
            f1 == first + BoolInt(v.is_negative)
            x == reduce_precision(v, fmt, precision)
            total_length == total_buffer_length(x.num_dig, x.exponent, IsLessThanZero(v))
        IN  IF total_length > buffer_size
            THEN Result(last, "ERANGE", m1)
            ELSE
            LET r == to_chars_integer_impl(m1, f1, last, x.significand)
            IN  IF r.ec # "ok" THEN r
                ELSE IF AbsGE(v, One)
                THEN fixed_point_and_zeros(r.mem, r.ptr, x, buffer_size, v.tens)
                ELSE fixed_leading_zeros(r.mem, f1, r.ptr, x, v.is_negative)

(***************************************************************************)
(* Unsigned integers as bit sets: the set of the positions of the bits     *)
(* that are 1.  w is the width of the integer type.                        *)
(***************************************************************************)
Bit(n) == {n}

\* (1 << n) - 1
LowMask(n) == 0..(n - 1)

ShiftLeft(x, k, w) == {i + k : i \in x} \cap (0..(w - 1))

ShiftRight(x, k) == {i - k : i \in {j \in x : j >= k}}

Lowest(x) == CHOOSE i \in x : \A j \in x : i <= j

\* x - 1 (modulo 2^w)
MinusOne(x, w) ==
    IF x = {} THEN 0..(w - 1) ELSE (x \ {Lowest(x)}) \cup (0..(Lowest(x) - 1))

\* x + y for y zero or a single bit (modulo 2^w)
PlusBit(x, y, w) ==
    IF y = {} THEN x
    ELSE LET p == Lowest(y)
             free == {q \in p..(w - 1) : q \notin x}
         IN  IF free = {} THEN x \ (p..(w - 1))
             ELSE (x \ (p..(Lowest(free) - 1))) \cup {Lowest(free)}

RECURSIVE ToNat(_)
ToNat(x) == IF x = {} THEN 0 ELSE Pow2(Lowest(x)) + ToNat(x \ {Lowest(x)})

(***************************************************************************)
(* to_chars_hex (lines 247-473).                                           *)
(***************************************************************************)
\* ieee754_binary32 / ieee754_binary64, the width of Unsigned_Integer
\* (lines 278-279), hex_precision (lines 298-303) and the exponent's bounds
\* check (lines 333-346).
type_layout(real) ==
    IF real = "float"
    THEN [significand_bits |-> 23, exponent_bias |-> -127, width |-> 32,
          hex_precision |-> 6, max_exponent |-> 127, exponent_range |-> 256]
    ELSE [significand_bits |-> 52, exponent_bias |-> -1023, width |-> 64,
          hex_precision |-> 13, max_exponent |-> 1023, exponent_range |-> 2048]

\* extract_exp (lines 225-229): uint_value >> significand_bits
extract_exp(uint_value, significand_bits) ==
    ToNat(ShiftRight(uint_value, significand_bits))

\* lines 284-371: the aligned significand and the unbiased exponent
hex_decompose(v) ==
    LET L == type_layout(v.real)
        hex_bits == L.hex_precision * 4
        significand == v.bits \cap LowMask(L.significand_bits)
        exponent == extract_exp(v.bits, L.significand_bits)
        aligned0 == IF v.real = "float" THEN ShiftLeft(significand, 1, L.width)
                    ELSE significand
        subnormal == exponent = 0 /\ significand # {}
        unbiased0 == IF subnormal THEN 1 + L.exponent_bias
                     ELSE exponent + L.exponent_bias
    IN  [aligned_significand |->
             IF subnormal THEN aligned0 ELSE aligned0 \cup Bit(hex_bits),
         unbiased_exponent |->
             IF unbiased0 > L.max_exponent THEN unbiased0 - L.exponent_range
             ELSE unbiased0,
         subnormal |-> subnormal]

\* A rounding that takes every tie upwards.
hex_round_broken(aligned_significand, real_precision, hex_precision, w) ==
    IF real_precision < hex_precision
    THEN LET lost_bits == (hex_precision - real_precision) * 4
             round_bit == ShiftLeft(aligned_significand, 1, w)
         IN  PlusBit(aligned_significand, round_bit \cap Bit(lost_bits), w)
    ELSE aligned_significand

\* lines 380-389: round to real_precision hex digits
hex_round(aligned_significand, real_precision, hex_precision, w) ==
    IF real_precision < hex_precision
    THEN LET lost_bits == (hex_precision - real_precision) * 4
             lsb_bit == aligned_significand
             round_bit == ShiftLeft(aligned_significand, 1, w)
             tail_bit == MinusOne(round_bit, w)
             round == round_bit \cap (tail_bit \cup lsb_bit) \cap Bit(lost_bits)
         IN  PlusBit(aligned_significand, round, w)
    ELSE aligned_significand

\* lines 417-448: the hex digits after the '.', from `remaining_bits` on
RECURSIVE hex_fraction(_, _, _, _)
hex_fraction(aligned_significand, remaining_bits, real_precision, precision) ==
    LET rem == remaining_bits - 4
        current_nibble == ToNat(ShiftRight(aligned_significand, rem))
        left == real_precision - 1
    IN  IF left = 0 THEN <<digit_table[current_nibble + 1]>>
        ELSE IF rem = 0
        THEN <<digit_table[current_nibble + 1]>>
             \o (IF precision # -1 THEN Repeat("0", left) ELSE <<>>)
        ELSE <<digit_table[current_nibble + 1]>>
             \o hex_fraction(aligned_significand \cap LowMask(rem), rem, left, precision)

\* A renderer that leaves the trailing zeros in place.
strip_back_broken(m, first) == first

\* lines 451-459: step back over the '0' cells before `first`
RECURSIVE strip_back(_, _)
strip_back(m, first) ==
    IF m.cells[first - 1] = "0" THEN strip_back(m, first - 1) ELSE first

\* A renderer that does not compare the total length with the buffer.
hex_too_long_broken(total_length, buffer_size) == FALSE

\* lines 375-378: the output does not fit in the buffer
hex_too_long(total_length, buffer_size) == total_length > buffer_size

to_chars_hex(mem, first, last, v, precision) ==
    LET buffer_size == last - first
        L == type_layout(v.real)
        hex_bits == L.hex_precision * 4
        real_precision == IF precision # -1 THEN precision
                          ELSE get_real_precision(v.real, precision)
    IN  IF buffer_size < real_precision \/ first > last
        THEN Result(last, "ERANGE", mem)
        ELSE
        LET h == hex_decompose(v)
            abs_unbiased_exponent == Abs(h.unbiased_exponent)
            total_length == total_buffer_length(real_precision, abs_unbiased_exponent,
                                                IsLessThanZero(v))
        IN  IF hex_too_long(total_length, buffer_size)
            THEN Result(last, "ERANGE", mem)
            ELSE
            LET rounded == hex_round(h.aligned_significand, real_precision,
                                     L.hex_precision, L.width)
                m1 == IF IsLessThanZero(v) THEN Store(mem, first, LitMinus) ELSE mem
                f1 == first + BoolInt(IsLessThanZero(v))
                leading_nibble == ToNat(ShiftRight(rounded, hex_bits))
                m2 == Store(m1, f1, <<digit_table[leading_nibble + 1]>>)
                fraction == IF real_precision > 0
                            THEN <<".">> \o hex_fraction(rounded \cap LowMask(hex_bits),
                                                         hex_bits, real_precision, precision)
                            ELSE <<>>
                m3 == Store(m2, f1 + 1, fraction)
                f3 == f1 + 1 + Len(fraction)
                f4 == IF precision = -1 THEN strip_back(m3, f3) ELSE f3
                m4 == Store(m3, f4, <<"p", IF h.unbiased_exponent < 0 THEN "-" ELSE "+">>)
            IN  to_chars_integer_impl(m4, f4 + 2, last, DecimalDigits(abs_unbiased_exponent))

(***************************************************************************)
(* to_chars_float_impl (lines 593-690).  The result records the renderer   *)
(* the call was routed to and the notation, precision and changed_fmt flag *)
(* handed to it.                                                           *)
(***************************************************************************)
Routed(r, route, fmt, floff_precision, changed_fmt) ==
    [ptr |-> r.ptr, ec |-> r.ec, mem |-> r.mem, route |-> route, fmt |-> fmt,
     floff_precision |-> floff_precision, changed_fmt |-> changed_fmt]

\* lines 620-624: the integer band
integer_band(mem, first, last, v) ==
    LET m1 == IF IsLessThanZero(v) THEN Store(mem, first, LitMinus) ELSE mem
    IN  to_chars_integer_impl(m1, first + BoolInt(IsLessThanZero(v)), last, v.integer)

\* A dispatcher that lets the scientific notation into the magnitude bands.
shortest_route_broken(mem, first, last, v, fmt, len) ==
    IF AbsGE(v, One) /\ AbsLT(v, max_fractional_value(v.real))
    THEN Routed(to_chars_fixed_impl(mem, first, last, v, fmt, -1),
                "to_chars_fixed_impl", fmt, -1, FALSE)
    ELSE IF AbsGE(v, max_fractional_value(v.real)) /\ AbsLT(v, max_value(v.real))
    THEN Routed(integer_band(mem, first, last, v),
                "to_chars_integer_impl", fmt, -1, FALSE)
    ELSE Routed(dragonbox_to_chars(mem, first, last, v, len),
                "dragonbox_to_chars", fmt, -1, FALSE)

\* lines 610-635: precision unspecified, notation general, fixed or scientific
shortest_route(mem, first, last, v, fmt, len) ==
    IF fmt \in {"general", "fixed"}
    THEN IF AbsGE(v, One) /\ AbsLT(v, max_fractional_value(v.real))
         THEN Routed(to_chars_fixed_impl(mem, first, last, v, fmt, -1),
                     "to_chars_fixed_impl", fmt, -1, FALSE)
         ELSE IF AbsGE(v, max_fractional_value(v.real)) /\ AbsLT(v, max_value(v.real))
         THEN Routed(integer_band(mem, first, last, v),
                     "to_chars_integer_impl", fmt, -1, FALSE)
         ELSE Routed(dragonbox_to_chars(mem, first, last, v, len),
                     "dragonbox_to_chars", fmt, -1, FALSE)
    ELSE Routed(dragonbox_to_chars(mem, first, last, v, len),
                "dragonbox_to_chars", fmt, -1, FALSE)

\* lines 638-666: precision given, notation other than hex
precision_route(mem, first, last, v, fmt, precision, len) ==
    LET changed_fmt == /\ fmt = "general"
                       /\ AbsGE(v, min_fractional_value)
                       /\ AbsLT(v, max_fractional_value(v.real))
        fmt1 == IF changed_fmt THEN "fixed" ELSE fmt
        floff_precision ==
            IF fmt1 \in {"scientific", "general"}
            THEN precision - BoolInt(AbsLT(v, One))
            ELSE precision - BoolInt(AbsLT(v, One)) + BoolInt(changed_fmt)
        clamped == IF floff_precision <= 0 THEN 0 ELSE floff_precision
    IN  Routed(external_digits(mem, first, last, len), "floff", fmt1, clamped,
               changed_fmt)

\* lines 669-689: hex notation
hex_route(mem, first, last, v, precision, len) ==
    IF v.classification \in {"FP_INFINITE", "FP_NAN"}
    THEN Routed(dragonbox_to_chars(mem, first, last, v, len),
                "dragonbox_to_chars", "general", precision, FALSE)
    ELSE IF v.classification = "FP_ZERO"
    THEN LET m1 == IF v.is_negative THEN Store(mem, first, LitMinus) ELSE mem
             f1 == first + BoolInt(v.is_negative)
         IN  Routed(Result(f1 + 4, "ok", Store(m1, f1, LitHexZero)),
                    "hex_zero", "hex", precision, FALSE)
    ELSE Routed(to_chars_hex(mem, first, last, v, precision),
                "to_chars_hex", "hex", precision, FALSE)

to_chars_float_impl(mem, first, last, v, fmt, precision, len) ==
    IF first >= last
    THEN Routed(Result(last, "ERANGE", mem), "none", fmt, precision, FALSE)
    ELSE IF precision = -1 /\ fmt # "hex"
    THEN shortest_route(mem, first, last, v, fmt, len)
    ELSE IF precision # -1 /\ fmt # "hex"
    THEN precision_route(mem, first, last, v, fmt, precision, len)
    ELSE hex_route(mem, first, last, v, precision, len)

\* The precisions a caller asks for: unspecified, and some on either side of
\* the 6 and 13 hex digits of a float and a double.
Precisions == {-1, 0, 1, 3, 6, 13}

\* The number of characters the digit generators of the other components
\* need for a value.
ExternalLengths == {1, 8, 24}

InitFloat ==
    /\ phase = "call"
    /\ out = NoResult
    /\ op = "to_chars_float_impl"
    /\ \E v \in FloatValues, fmt \in Formats, precision \in Precisions :
       \E size \in 0..MaxBuf, fill \in Fills, len \in ExternalLengths :
           inp = [value |-> v, fmt |-> fmt, precision |-> precision, first |-> 0,
                  last |-> size, fill |-> fill, len |-> len]

ToCharsFloat ==
    /\ op = "to_chars_float_impl"
    /\ phase = "call"
    /\ out' = to_chars_float_impl(FreshMemory(inp.fill), inp.first, inp.last,
                                  inp.value, inp.fmt, inp.precision, inp.len)
    /\ phase' = "return"
    /\ UNCHANGED <<op, inp>>

NextFloat == ToCharsFloat

SpecFloat == InitFloat /\ [][NextFloat]_vars

\* C8: format_float stores to no cell at or beyond last, for any value,
\* notation, precision and buffer, and never returns ok with an end beyond
\* last.
C8_NoOverrun ==
    Returned("to_chars_float_impl")
        => /\ \A w \in out.mem.written : w < inp.last
           /\ out.ec = "ok" => out.ptr <= inp.last

\* C11: when the non-finite renderer returns range-error it has stored to no
\* cell: in particular no '-' has been written for a negative NaN.
C11_NoPartialWrite ==
    (Returned("to_chars_nonfinite") /\ out.ec = "ERANGE")
        => out.mem.written = {}

\* The double 1.0, by its bit pattern 0x3FF0000000000000.
DoubleOne == 52..61

\* The text the hex notation is to give for 1.0, 0.0 and -0.0.
HexExactText(v) ==
    IF v.bits = DoubleOne THEN <<"1", "p", "+", "0">>
    ELSE IF v.is_negative THEN <<"-", "0", "p", "+", "0">>
    ELSE LitHexZero

\* C12: in hex notation with unspecified precision and a buffer that is large
\* enough, format_float renders the double 1.0 as exactly "1p+0", 0.0 as
\* "0p+0" and -0.0 as "-0p+0", and end is just past the last character.
C12_HexExact ==
    (/\ Returned("to_chars_float_impl")
     /\ inp.fmt = "hex" /\ inp.precision = -1 /\ inp.value.real = "double"
     /\ inp.value.bits = DoubleOne \/ inp.value.classification = "FP_ZERO"
     /\ inp.last - inp.first >= 22)
        => /\ out.ec = "ok"
           /\ Chars(out.mem, inp.first, out.ptr) = HexExactText(inp.value)

\* The zero part of C12 alone.
C12_HexZeroExact ==
    (/\ Returned("to_chars_float_impl")
     /\ inp.fmt = "hex" /\ inp.precision = -1 /\ inp.value.real = "double"
     /\ inp.value.classification = "FP_ZERO"
     /\ inp.last - inp.first >= 22)
        => /\ out.ec = "ok"
           /\ Chars(out.mem, inp.first, out.ptr) = HexExactText(inp.value)

\* C13: for a signed type T and any base, the text of min(T) parses to ok
\* with value exactly min(T) (the sign is applied without a signed negation
\* that overflows, so no other value can come out), and the text of
\* min(T) - 1 parses to range-error.
C13_NegativeBranch ==
    (Returned("from_chars") /\ inp.kind = "formatted" /\ inp.T.is_signed)
        => /\ (inp.v = MinOf(inp.T)) => (out.ec = "ok" /\ out.value = MinOf(inp.T))
           /\ (inp.v = MinOf(inp.T) - 1) => (out.ec = "ERANGE")

\* The part of C13 below the range: the text of min(T) - 1 is a range-error.
C13_BelowMinimum ==
    (Returned("from_chars") /\ inp.kind = "formatted" /\ inp.T.is_signed
        /\ inp.v = MinOf(inp.T) - 1)
        => out.ec = "ERANGE"

\* The part of C13 for a type below int, whose negation is computed in int.
C13_PromotedMinimum ==
    (Returned("from_chars") /\ inp.kind = "formatted" /\ inp.T.is_signed
        /\ inp.T.promotes /\ inp.v = MinOf(inp.T))
        => (out.ec = "ok" /\ out.value = MinOf(inp.T))

\* The general-to-fixed override: general notation and 1e-4 <= |value| < T1.
OverrideFires(v, fmt) ==
    /\ fmt = "general"
    /\ AbsGE(v, min_fractional_value)
    /\ AbsLT(v, max_fractional_value(v.real))

\* max(0, requested - d + o): d = 1 only for |value| < 1 in scientific or
\* general notation, o = 1 only when the override fires.
AdjustedPrecision(v, fmt, precision) ==
    LET d == BoolInt(AbsLT(v, One) /\ fmt \in {"scientific", "general"})
        o == BoolInt(OverrideFires(v, fmt))
        p == precision - d + o
    IN  IF p < 0 THEN 0 ELSE p

\* C14: with a precision given and a notation other than hex, the precision
\* handed to the explicit-precision generator is max(0, requested - d + o),
\* d = 1 only if |value| < 1 and the requested notation is scientific or
\* general, o = 1 only if the general-to-fixed override fired.
C14_AdjustedPrecision ==
    (Returned("to_chars_float_impl") /\ inp.first < inp.last
        /\ inp.precision # -1 /\ inp.fmt # "hex")
        => /\ out.route = "floff"
           /\ out.floff_precision = AdjustedPrecision(inp.value, inp.fmt, inp.precision)

\* C14 for the requested notations scientific and general alone.
C14_AdjustedPrecisionNotFixed ==
    (Returned("to_chars_float_impl") /\ inp.first < inp.last
        /\ inp.precision # -1 /\ inp.fmt \in {"scientific", "general"})
        => /\ out.route = "floff"
           /\ out.floff_precision = AdjustedPrecision(inp.value, inp.fmt, inp.precision)
           /\ out.changed_fmt = OverrideFires(inp.value, inp.fmt)

\* The number of decimal digits of the integer part of |value|, for a finite
\* value that is not zero (not positive when |value| < 1).
IntegerDigits(v) == Len(v.significand) + v.exponent

\* T1 = 10^T1Digits(real): 1e16 for double, 1e7 for float.
T1Digits(real) == IF real = "double" THEN 16 ELSE 7

\* T2 as an integer: 2^64 for double, 2^32 for float.
T2Integer(real) ==
    IF real = "double"
    THEN <<1, 8, 4, 4, 6, 7, 4, 4, 0, 7, 3, 7, 0, 9, 5, 5, 1, 6, 1, 6>>
    ELSE <<4, 2, 9, 4, 9, 6, 7, 2, 9, 6>>

IntegerLess(a, b) ==
    Len(a) < Len(b) \/ (Len(a) = Len(b) /\ CompareDigits(a, b, 1) < 0)

NonZeroFinite(v) == v.classification \in {"FP_NORMAL", "FP_SUBNORMAL"}

\* 1 <= |value| < T1
InFixedBand(v) ==
    NonZeroFinite(v) /\ IntegerDigits(v) >= 1 /\ IntegerDigits(v) <= T1Digits(v.real)

\* T1 <= |value| < T2
InIntegerBand(v) ==
    /\ NonZeroFinite(v)
    /\ IntegerDigits(v) > T1Digits(v.real)
    /\ v.integer # <<>>
    /\ IntegerLess(v.integer, T2Integer(v.real))

\* The route of a call with unspecified precision in a notation other than
\* hex.
ShortestRouteOf(v, fmt) ==
    IF fmt = "scientific" THEN "dragonbox_to_chars"
    ELSE IF InFixedBand(v) THEN "to_chars_fixed_impl"
    ELSE IF InIntegerBand(v) THEN "to_chars_integer_impl"
    ELSE "dragonbox_to_chars"

\* C15: with unspecified precision, general and fixed notation send
\* 1 <= |value| < T1 to the fixed renderer, render T1 <= |value| < T2 as an
\* optional '-' and the truncated integer, and send every other value to the
\* shortest-digits generator in the requested notation; scientific notation
\* sends every value to that generator.  The bands are disjoint and one route
\* is taken.
C15_ShortestRouting ==
    (Returned("to_chars_float_impl") /\ inp.first < inp.last
        /\ inp.precision = -1 /\ inp.fmt # "hex")
        => /\ out.route = ShortestRouteOf(inp.value, inp.fmt)
           /\ out.fmt = inp.fmt
           /\ ~(InFixedBand(inp.value) /\ InIntegerBand(inp.value))
           /\ (out.route = "to_chars_integer_impl" /\ out.ec = "ok")
                  => Chars(out.mem, inp.first, out.ptr)
                         = (IF inp.value.is_negative THEN LitMinus ELSE <<>>)
                           \o Glyphs(inp.value.integer)

C15_Witness ==
    /\ Returned("to_chars_float_impl")
    /\ inp.precision = -1 /\ inp.fmt = "general"
    /\ inp.value.is_negative /\ InIntegerBand(inp.value)
    /\ out.route = "to_chars_integer_impl" /\ out.ec = "ok"

\* What the non-finite renderer gives for the call's value and buffer.
NonFiniteRendering ==
    to_chars_nonfinite(FreshMemory(inp.fill), inp.first, inp.last,
                       inp.value.is_negative, inp.value.is_signaling,
                       inp.value.classification)

\* The call went the non-finite way and returned what the non-finite
\* renderer returns.
NonFiniteRouteTaken ==
    /\ out.route = "dragonbox_to_chars"
    /\ Result(out.ptr, out.ec, out.mem) = NonFiniteRendering

\* C16: an infinity or a NaN takes the non-finite route and gives the same
\* output whatever the notation and the precision, given or not: the value is
\* classified before any delegation that depends on them.
C16_NonFiniteRouting ==
    (Returned("to_chars_float_impl") /\ inp.first < inp.last /\ ~IsFinite(inp.value))
        => NonFiniteRouteTaken

\* C16 for the calls with unspecified precision or hex notation alone.
C16_NonFiniteUnspecified ==
    (Returned("to_chars_float_impl") /\ inp.first < inp.last /\ ~IsFinite(inp.value)
        /\ (inp.precision = -1 \/ inp.fmt = "hex"))
        => NonFiniteRouteTaken

(***************************************************************************)
(* The hex renderer called on its own: one call of to_chars_hex on a       *)
(* finite value that is not zero, given by its sign bit, exponent field    *)
(* and significand field.                                                  *)
(***************************************************************************)
\* The bits of the natural number n.
RECURSIVE NatBits(_, _)
NatBits(n, at) ==
    IF n = 0 THEN {}
    ELSE (IF n % 2 = 1 THEN {at} ELSE {}) \cup NatBits(n \div 2, at + 1)

\* The exponent fields: subnormal, smallest normal, exponent 0, largest
\* finite.
ExponentFields(real) ==
    IF real = "float" THEN {0, 1, 127, 254} ELSE {0, 1, 1023, 2046}

\* The significand fields are the unions of these runs of bits: the runs end
\* where the rounding to 0, 1 and intrinsic - 1 hex digits cuts.
SignificandRuns(real) ==
    IF real = "float"
    THEN {0..1, {2}, {3}, 4..17, {18}, {19}, 20..21, {22}}
    ELSE {0..2, {3}, {4}, 5..46, {47}, {48}, 49..50, {51}}

SignificandFields(real) == {UNION runs : runs \in SUBSET SignificandRuns(real)}

HexValue(real, sign, field, significand) ==
    [real |-> real,
     bits |-> significand
              \cup NatBits(field, type_layout(real).significand_bits)
              \cup (IF sign THEN {type_layout(real).width - 1} ELSE {}),
     is_negative |-> sign,
     classification |-> IF field = 0 THEN "FP_SUBNORMAL" ELSE "FP_NORMAL",
     field |-> field,
     significand |-> significand]

\* The precisions asked of the hex renderer: unspecified, and 0 up to one
\* more than the 13 hex digits of a double.
HexPrecisions == -1..14

\* The significand fields handed over with buffers of every size: none of
\* the bits, the lowest bit, all of the bits.
PlainSignificands(real) == {{}, {0}, UNION SignificandRuns(real)}

HexInput(real, sign, field, significand, precision, size) ==
    /\ field # 0 \/ significand # {}
    /\ inp = [value |-> HexValue(real, sign, field, significand),
              precision |-> precision, first |-> 0, last |-> size, fill |-> "0"]

\* Every significand field, in the largest buffer.
RoomyHexInput ==
    \E real \in {"float", "double"}, sign \in BOOLEAN, precision \in HexPrecisions :
    \E field \in ExponentFields(real), significand \in SignificandFields(real) :
        HexInput(real, sign, field, significand, precision, MaxBuf)

\* Buffers of every size, the empty one included.
SizedHexInput ==
    \E real \in {"float", "double"}, sign \in BOOLEAN, precision \in HexPrecisions :
    \E field \in ExponentFields(real), significand \in PlainSignificands(real) :
    \E size \in 0..MaxBuf :
        HexInput(real, sign, field, significand, precision, size)

InitHex ==
    /\ phase = "call"
    /\ out = NoResult
    /\ op = "to_chars_hex"
    /\ (RoomyHexInput \/ SizedHexInput)

ToCharsHex ==
    /\ op = "to_chars_hex"
    /\ phase = "call"
    /\ out' = to_chars_hex(FreshMemory(inp.fill), inp.first, inp.last, inp.value,
                           inp.precision)
    /\ phase' = "return"
    /\ UNCHANGED <<op, inp>>

NextHex == ToCharsHex

SpecHex == InitHex /\ [][NextHex]_vars

HexCalled == Returned("to_chars_hex")

\* The IEEE bias of the exponent field.
IeeeBias(real) == IF real = "float" THEN 127 ELSE 1023

\* The exponent the hex notation prints for a value: 1 - bias for a
\* subnormal, exponent field - bias otherwise.
PrintedExponent(v) ==
    IF v.field = 0 THEN 1 - IeeeBias(v.real) ELSE v.field - IeeeBias(v.real)

\* 'p', the exponent's sign and its decimal digits.
ExponentText(e) ==
    <<"p", IF e < 0 THEN "-" ELSE "+">> \o Glyphs(DecimalDigits(Abs(e)))

\* The output ends with the text t.
EndsWith(t) ==
    /\ out.ptr - inp.first >= Len(t)
    /\ Chars(out.mem, out.ptr - Len(t), out.ptr) = t

\* The leading hex digit of the output.
LeadingDigit == out.mem.cells[inp.first + BoolInt(inp.value.is_negative)]

\* The call does not round: the precision is unspecified or at least the
\* intrinsic one.
Unrounded ==
    inp.precision = -1 \/ inp.precision >= type_layout(inp.value.real).hex_precision

\* The split of C17 on the output of a successful call.
NormalSubnormalSplit ==
    /\ EndsWith(ExponentText(PrintedExponent(inp.value)))
    /\ Unrounded => LeadingDigit = (IF inp.value.field = 0 THEN "0" ELSE "1")

\* C17: a finite non-zero value of either sign whose exponent field is zero
\* is rendered as a subnormal, with leading hex digit 0 and exponent
\* 1 - bias (-126 float, -1022 double); any other gets the implicit leading
\* bit (leading hex digit 1 before rounding) and exponent field - bias.
C17_NormalSubnormalSplit ==
    (HexCalled /\ out.ec = "ok") => NormalSubnormalSplit

\* C17 for the positive values and the negative normal values alone.
C17_SplitButNegativeSubnormal ==
    (HexCalled /\ out.ec = "ok" /\ ~(inp.value.is_negative /\ inp.value.field = 0))
        => NormalSubnormalSplit

\* The bits the rounding to the call's precision discards.
LostBits == (type_layout(inp.value.real).hex_precision - inp.precision) * 4

\* The aligned significand the call rounds.
AlignedSignificand == hex_decompose(inp.value).aligned_significand

\* Round to nearest, ties to even: up when the discarded bits are more than
\* half a unit, or exactly half with the lowest retained bit 1.
RoundsUp ==
    LET half == (LostBits - 1) \in AlignedSignificand
        tail == \E i \in AlignedSignificand : i < LostBits - 1
        odd == LostBits \in AlignedSignificand
    IN  half /\ (tail \/ odd)

\* The retained bits as a number, and that number plus one.
Retained == {i - LostBits : i \in {j \in AlignedSignificand : j >= LostBits}}

PlusOne(x) ==
    LET z == CHOOSE k \in 0..64 : k \notin x /\ \A j \in 0..(k - 1) : j \in x
    IN  (x \ (0..(z - 1))) \cup {z}

RoundedRetained == IF RoundsUp THEN PlusOne(Retained) ELSE Retained

\* The k-th hex digit of a number, counted from the lowest, as a character.
HexDigitOf(x, k) ==
    digit_table[1 + BoolInt(4 * k \in x) + 2 * BoolInt(4 * k + 1 \in x)
                  + 4 * BoolInt(4 * k + 2 \in x) + 8 * BoolInt(4 * k + 3 \in x)]

\* The leading digit, and the '.' and the p digits after it, of the rounded
\* value.
RoundedText ==
    <<HexDigitOf(RoundedRetained, inp.precision)>>
    \o (IF inp.precision = 0 THEN <<>>
        ELSE <<".">> \o [k \in 1..inp.precision |->
                            HexDigitOf(RoundedRetained, inp.precision - k)])

\* A call that rounds and succeeds.
RoundingCall ==
    /\ HexCalled /\ out.ec = "ok"
    /\ inp.precision >= 0
    /\ inp.precision < type_layout(inp.value.real).hex_precision

\* C18: for a precision p below the intrinsic one the renderer adds 1 at bit
\* 4 * (intrinsic - p) of the aligned significand exactly when the discarded
\* bits are more than half a unit, or exactly half with the lowest retained
\* bit 1, and the leading digit and the p digits printed are those of the
\* value so rounded.
C18_HexRounding ==
    RoundingCall
        => Chars(out.mem, inp.first + BoolInt(inp.value.is_negative),
                 inp.first + BoolInt(inp.value.is_negative) + Len(RoundedText))
               = RoundedText

\* A tie with the lowest retained bit 0, left alone by the rounding.
C18_Witness ==
    /\ RoundingCall
    /\ inp.value.real = "double" /\ inp.precision = 12
    /\ 3 \in inp.value.significand
    /\ 4 \notin inp.value.significand
    /\ inp.value.significand \cap (0..2) = {}
    /\ ~RoundsUp

\* The hex digits asked for: the intrinsic ones when the precision is
\* unspecified.
RequestedDigits ==
    IF inp.precision = -1 THEN type_layout(inp.value.real).hex_precision
    ELSE inp.precision

\* Sign + leading hex digit + '.' + requested hex digits + 'p' + exponent
\* sign + exponent digits.
HexTotalLength ==
    BoolInt(inp.value.is_negative) + 1 + 1 + RequestedDigits + 1 + 1
        + Len(DecimalDigits(Abs(PrintedExponent(inp.value))))

\* C19: when the total output length exceeds last - first, to_chars_hex
\* returns range-error with end = last and has written nothing; and whatever
\* it writes, the exponent digits included, lies inside [first, last).
C19_HexBounds ==
    HexCalled
        => /\ (HexTotalLength > inp.last - inp.first)
                  => (out.ec = "ERANGE" /\ out.ptr = inp.last /\ out.mem.written = {})
           /\ \A w \in out.mem.written : inp.first <= w /\ w < inp.last
           /\ out.ec = "ok" => out.ptr <= inp.last

\* A buffer that holds the requested digits but not the whole output.
C19_Witness ==
    /\ HexCalled
    /\ inp.precision = 3
    /\ inp.last - inp.first = HexTotalLength - 1
    /\ out.ec = "ERANGE"

\* The fraction bits of the aligned significand, and its intrinsic hex
\* digits, most significant first.
IntrinsicDigits ==
    LET hp == type_layout(inp.value.real).hex_precision
        fraction == AlignedSignificand \cap (0..(4 * hp - 1))
    IN  [k \in 1..hp |-> HexDigitOf(fraction, hp - k)]

RECURSIVE StripTrailingZeros(_)
StripTrailingZeros(d) ==
    IF d # <<>> /\ d[Len(d)] = "0" THEN StripTrailingZeros(SubSeq(d, 1, Len(d) - 1))
    ELSE d

\* Where the leading hex digit of the output is, and where its 'p' is.
LeadingAt == inp.first + BoolInt(inp.value.is_negative)

ExponentAt == CHOOSE i \in inp.first..(out.ptr - 1) : out.mem.cells[i] = "p"

\* The hex digits between the '.' and the 'p'.
DigitsAfterPoint == Chars(out.mem, LeadingAt + 2, ExponentAt)

\* C20: with a precision p >= 0 the hex renderer emits exactly p hex digits
\* after the '.', padded with zeros on the right beyond the intrinsic digits,
\* and no '.' when p = 0; with unspecified precision it emits the intrinsic
\* digits without their trailing zeros, and the backward scan that strips
\* them stops after the leading hex digit.
C20_HexDigitCount ==
    (HexCalled /\ out.ec = "ok")
        => /\ \E i \in inp.first..(out.ptr - 1) : out.mem.cells[i] = "p"
           /\ ExponentAt >= LeadingAt + 1
           /\ (inp.precision = 0) => (ExponentAt = LeadingAt + 1)
           /\ (inp.precision > 0)
                  => /\ out.mem.cells[LeadingAt + 1] = "."
                     /\ Len(DigitsAfterPoint) = inp.precision
           /\ (inp.precision >= Len(IntrinsicDigits))
                  => DigitsAfterPoint
                         = IntrinsicDigits
                           \o Repeat("0", inp.precision - Len(IntrinsicDigits))
           /\ (inp.precision = -1)
                  => DigitsAfterPoint = StripTrailingZeros(IntrinsicDigits)

\* Trailing zeros stripped down to one digit.
C20_Witness ==
    /\ HexCalled /\ out.ec = "ok"
    /\ inp.precision = -1
    /\ inp.value.real = "double"
    /\ DigitsAfterPoint = <<"8">>

(***************************************************************************)
(* The fixed-notation renderer called on its own: one call of              *)
(* to_chars_fixed_impl on a finite value that is not zero.  The result     *)
(* keeps value_struct and num_dig as they stand at the length check of     *)
(* line 534.                                                               *)
(***************************************************************************)
FixedValues == {v \in FloatValues : v.classification \in {"FP_NORMAL", "FP_SUBNORMAL"}}

\* The precisions asked of the fixed renderer.
FixedPrecisions == {-1, 0, 1, 2, 3, 6}

InitFixed ==
    /\ phase = "call"
    /\ out = NoResult
    /\ op = "to_chars_fixed_impl"
    /\ \E v \in FixedValues, fmt \in {"fixed", "general"}, precision \in FixedPrecisions :
       \E size \in 0..MaxBuf, fill \in Fills :
           inp = [value |-> v, fmt |-> fmt, precision |-> precision, first |-> 0,
                  last |-> size, fill |-> fill]

ToCharsFixed ==
    /\ op = "to_chars_fixed_impl"
    /\ phase = "call"
    /\ LET r == to_chars_fixed_impl(FreshMemory(inp.fill), inp.first, inp.last,
                                    inp.value, inp.fmt, inp.precision)
       IN  out' = [ptr |-> r.ptr, ec |-> r.ec, mem |-> r.mem,
                   value_struct |-> reduce_precision(inp.value, inp.fmt, inp.precision)]
    /\ phase' = "return"
    /\ UNCHANGED <<op, inp>>

NextFixed == ToCharsFixed

SpecFixed == InitFixed /\ [][NextFixed]_vars

FixedCalled == Returned("to_chars_fixed_impl")

\* The call got past the check of lines 484-487.
PastFirstCheck ==
    inp.last - inp.first >= get_real_precision(inp.value.real, inp.precision)

\* The total length of line 534.
FixedTotalLength ==
    total_buffer_length(out.value_struct.num_dig, out.value_struct.exponent,
                        IsLessThanZero(inp.value))

\* The call fails at the length check of lines 534-538.
FailsLengthCheck ==
    /\ FixedCalled
    /\ PastFirstCheck
    /\ FixedTotalLength > inp.last - inp.first

\* C21: when to_chars_fixed_impl returns range-error because the total
\* length exceeds the buffer, it has stored to no cell, not even the '-' of a
\* negative value: the length check comes before every write.
C21_FixedNoPartialWrite ==
    FailsLengthCheck => (out.ec = "ERANGE" /\ out.mem.written = {})

\* C21 for the values with the sign bit clear alone.
C21_PositiveNoPartialWrite ==
    (FailsLengthCheck /\ ~inp.value.is_negative)
        => (out.ec = "ERANGE" /\ out.ptr = inp.last /\ out.mem.written = {})

\* A call that reduces the significand: a precision is given and the
\* significand has at least precision + 2 digits.
ReducingCall ==
    /\ FixedCalled /\ PastFirstCheck
    /\ inp.fmt = "fixed"
    /\ inp.precision # -1
    /\ Len(inp.value.significand) >= inp.precision + 2

\* The original significand cut to precision + 2 digits and rounded half-up
\* on the last of them.
RoundedHalfUp ==
    LET kept == SubSeq(inp.value.significand, 1, inp.precision + 1)
        removed == inp.value.significand[inp.precision + 2]
    IN  IF removed >= 5
        THEN (IF kept = <<>> THEN <<1>> ELSE Increment(kept))
        ELSE (IF kept = <<>> THEN <<0>> ELSE kept)

\* The value part of C22: significand and exponent after the reduction.
ReducedValue ==
    /\ out.value_struct.significand = RoundedHalfUp
    /\ out.value_struct.exponent
           = inp.value.exponent + Len(inp.value.significand) - (inp.precision + 1)

\* The rounding carried into a new digit: 99..95 became 100..0.
RoundingCarried == Len(RoundedHalfUp) > inp.precision + 1

\* C22: when a precision is requested and the significand has at least
\* precision + 2 digits, the reduction leaves the significand cut to
\* precision + 2 digits and rounded half-up on the removed last digit, the
\* exponent incremented once per removed digit, and num_dig equal to the
\* number of decimal digits of the resulting significand, at most
\* precision + 1, also when the rounding carries.
C22_PrecisionReduction ==
    ReducingCall
        => /\ ReducedValue
           /\ out.value_struct.num_dig = Len(out.value_struct.significand)
           /\ out.value_struct.num_dig <= inp.precision + 1

\* The value part of C22 alone.
C22_ReducedValue == ReducingCall => ReducedValue

\* C22 for the roundings that do not carry into a new digit.
C22_WithoutCarry ==
    (ReducingCall /\ ~RoundingCarried)
        => /\ ReducedValue
           /\ out.value_struct.num_dig = Len(out.value_struct.significand)
           /\ out.value_struct.num_dig <= inp.precision + 1

(***************************************************************************)
(* The hex renderer called on a value and on its negation: v goes to a     *)
(* buffer [first, last) and -v to a buffer one byte longer, which has room *)
(* for the sign.                                                           *)
(***************************************************************************)
\* -v: the same fields with the sign bit set.
Negated(v) == HexValue(v.real, TRUE, v.field, v.significand)

InitHexPair ==
    /\ phase = "call"
    /\ out = NoResult
    /\ op = "to_chars_hex_pair"
    /\ \E real \in {"float", "double"}, precision \in HexPrecisions :
       \E field \in ExponentFields(real) :
          \/ \E significand \in SignificandFields(real) :
                 HexInput(real, FALSE, field, significand, precision, MaxBuf - 1)
          \/ \E significand \in PlainSignificands(real), size \in 0..(MaxBuf - 1) :
                 HexInput(real, FALSE, field, significand, precision, size)

ToCharsHexPair ==
    /\ op = "to_chars_hex_pair"
    /\ phase = "call"
    /\ out' = [plus |-> to_chars_hex(FreshMemory(inp.fill), inp.first, inp.last,
                                     inp.value, inp.precision),
               minus |-> to_chars_hex(FreshMemory(inp.fill), inp.first, inp.last + 1,
                                      Negated(inp.value), inp.precision)]
    /\ phase' = "return"
    /\ UNCHANGED <<op, inp>>

NextHexPair == ToCharsHexPair

SpecHexPair == InitHexPair /\ [][NextHexPair]_vars

HexPairCalled == Returned("to_chars_hex_pair")

\* The rendering of -v is '-' followed by the rendering of v.
SignSymmetric ==
    /\ out.minus.ec = out.plus.ec
    /\ out.plus.ec = "ok"
           => Chars(out.minus.mem, inp.first, out.minus.ptr)
                  = LitMinus \o Chars(out.plus.mem, inp.first, out.plus.ptr)

\* C23: for every finite non-zero value v, normal or subnormal, and every
\* precision, the hex rendering of -v is '-' followed by the hex rendering of
\* v: the sign bit changes neither the leading digit, the fraction digits,
\* the normal/subnormal decision nor the printed exponent.
C23_HexSignSymmetry == HexPairCalled => SignSymmetric

\* C23 for the normal values alone.
C23_NormalSignSymmetry ==
    (HexPairCalled /\ inp.value.field # 0) => SignSymmetric

====
